---- MODULE Spec2Model ----
(***************************************************************************)
(* The in-process event bus of golang-utils (event.go): the registration   *)
(* table, Bus.Send with its per-registration fan-out of handler goroutines *)
(* and the dead-letter feedback loop, ClearRegistrations and Reset, and    *)
(* the methods Matches and Get of an event value.                          *)
(*                                                                         *)
(* Strings are TLA+ strings.  An error value is its Error() text, nilErr   *)
(* standing for the nil error.  A []Handler value is a record that keeps   *)
(* the nil slice apart from an empty one.  The loop variables i and        *)
(* handler of Bus.Send are per-iteration variables (the language semantics *)
(* since Go 1.22): every closure sees the index of its own iteration.      *)
(***************************************************************************)
EXTENDS Integers, Sequences, FiniteSets, TLC

VARIABLES
    handlers,   \* Bus.handlers: uniqueName -> Registration
    sent,       \* Bus.sent
    stack,      \* the activation records of the running Bus.Send calls
    panicked,   \* a goroutine raised a runtime panic (the process is gone)
    ids,        \* number of Register calls made on the present table
    registered, \* <<filter, prototype>> -> its handlers on the present table
    sends,      \* number of Send calls made from outside the bus so far
    sending,    \* the event of the last top-level Send of an event
    succ,       \* handler invocations of the last top-level Send that returned nil
    sentBefore, \* Sent() when the running top-level Send was called
    invoked,    \* handler -> invocations during the last top-level Send
    deliveries, \* the (registration, handler, event) triples of that Send
    deadLetters,\* the dead-letter events sent recursively during that Send
    last,       \* the last call the application made on the bus
    resets,     \* number of Reset calls made so far
    probe,      \* a method call on an event value: receiver, argument, result
    regex,      \* the Regex value under test: Pattern, Regex, lock
    callers,    \* goroutine -> its position in a call on the Regex
    appState,   \* the State value: its fields and its embedded Mutex
    threads,    \* goroutine -> its position in a call on the State
    chains      \* the Send calls of other goroutines, and whose stack is

vars ==
    <<handlers, sent, stack, panicked, ids, registered, sends, sending, succ,
      sentBefore, invoked, deliveries, deadLetters, last, resets, probe,
      regex, callers, appState, threads, chains>>

---------------------------------------------------------------------------
(* Bounds *)

MaxRegs == 3
MaxSends == 1
MaxDepth == 3
MaxResets == 1
MaxGoroutines == 2
MaxThreads == 2

---------------------------------------------------------------------------
(* Values *)

nilErr == "<nil>"
\* A concrete event type, as reflect.TypeOf gives it, is the pointer to a
\* struct type: the type is identified by the import path of the package
\* that declares it together with the declared name, never by its string.
PtrTo(pkgPath, pkgName, decl) ==
    [pkgPath |-> pkgPath, pkgName |-> pkgName, decl |-> decl]

\* reflect.Type.String() of a pointer type: "*", the name (not the import
\* path) of the package, ".", the declared name. Two types declared with
\* one name in packages of one name have the same string.
String(t) == "*" \o t.pkgName \o "." \o t.decl

\* the nil Event: no concrete type
NilEvent == PtrTo("", "", "<nil>")

TestEventType ==
    PtrTo("github.com/jonathannewell/golang-utils", "golang_utils", "TestEvent")
LogEventType ==
    PtrTo("github.com/jonathannewell/golang-utils", "golang_utils", "LogEvent")
DeadLetterEventType ==
    PtrTo("github.com/jonathannewell/golang-utils", "golang_utils",
          "DeadLetterEvent")

NilSlice == [isNil |-> TRUE, elems |-> <<>>]
MakeSlice(s) == [isNil |-> FALSE, elems |-> s]

NilMap == [k \in {} |-> ""]

\* the nil Event; it also stands for "no Send yet" in the variable sending
NoEvent == [type |-> NilEvent, TypeName |-> "", Msg |-> "", DataMap |-> NilMap]

\* reflect.TypeOf(event): an event value carries its concrete type, and two
\* types are compared as types (line 145), whatever their strings
TypeOf(event) == event.type

newTestEventDetailed(name, msg) ==
    [type |-> TestEventType, TypeName |-> name, Msg |-> msg, DataMap |-> NilMap]

NewLogEventDetailed(name, msg) ==
    [type |-> LogEventType, TypeName |-> name, Msg |-> msg, DataMap |-> NilMap]

NewDeadLetterEvent_EventMsg(event, err, hs) ==
    [type |-> DeadLetterEventType, TypeName |-> "dead-letter", Msg |-> event.Msg,
     DataMap |-> [event |-> event, handlers |-> hs]]

NewDeadLetterEvent(event, err, hs) ==
    [type |-> DeadLetterEventType, TypeName |-> "dead-letter", Msg |-> err,
     DataMap |-> [event |-> event, handlers |-> hs]]

\* stands for "no method call yet" in the variable probe
NoProbe == [event |-> NoEvent, op |-> "", arg |-> "", out |-> ""]

NoHandlerError(event) ==
    "No handler(s) for event " \o event.TypeName \o " found"

---------------------------------------------------------------------------
(* DefaultEvent.Matches *)

HasPrefix(s, prefix) ==
    /\ Len(s) >= Len(prefix)
    /\ SubSeq(s, 1, Len(prefix)) = prefix

RECURSIVE TrimLeft(_, _)
TrimLeft(s, c) ==
    IF Len(s) > 0 /\ SubSeq(s, 1, 1) = c
    THEN TrimLeft(SubSeq(s, 2, Len(s)), c)
    ELSE s

Matches(event, filter) ==
    IF filter = "*" THEN TRUE
    ELSE IF HasPrefix(filter, "!")
         THEN ~HasPrefix(event.TypeName, TrimLeft(filter, "!"))
         ELSE HasPrefix(event.TypeName, filter)

---------------------------------------------------------------------------
(* DefaultEvent.Get: a map is a function; indexing a nil map reads like    *)
(* indexing an empty one                                                   *)

Get_ZeroValue(event, key) ==
    IF key \in DOMAIN event.DataMap THEN event.DataMap[key] ELSE ""

Get(event, key) ==
    IF key \in DOMAIN event.DataMap THEN event.DataMap[key] ELSE "???"

---------------------------------------------------------------------------
(* Handlers: the functions the tests register *)

emptyEventHandler(event) == nilErr

expectReg(n, event) ==
    IF "suzy" # event.TypeName
    THEN "expected suzy event, got " \o event.TypeName
    ELSE IF ("Reg " \o n) # event.Msg
         THEN "expected Reg " \o n \o ", got " \o event.Msg
         ELSE nilErr

Call(handler, event) ==
    CASE handler.kind = "empty" -> emptyEventHandler(event)
      [] handler.kind = "expectReg1" -> expectReg("1", event)
      [] handler.kind = "expectReg2" -> expectReg("2", event)
      [] handler.kind = "expectReg3" -> expectReg("3", event)
      [] handler.kind = "deadLetterSink" -> nilErr

---------------------------------------------------------------------------
(* Registration table *)

NewRegistration(filter, event, handler) ==
    [filter |-> filter, event |-> event, handlers |-> <<handler>>]

\* lines 103-108; r.event holds the concrete type of the prototype
uniqueName(r) ==
    IF r.event = NilEvent THEN r.filter
    ELSE r.filter \o "-" \o String(r.event)

RegisterHandler(table, registration) ==
    LET name == uniqueName(registration) IN
    IF name \in DOMAIN table
    THEN [table EXCEPT ![name].handlers = @ \o registration.handlers]
    ELSE [n \in DOMAIN table \cup {name} |->
            IF n = name THEN registration ELSE table[n]]

Registrations == {handlers[n] : n \in DOMAIN handlers}

RECURSIVE Flatten(_)
Flatten(S) ==
    IF S = {} THEN <<>>
    ELSE LET n == CHOOSE m \in S : TRUE
         IN handlers[n].handlers \o Flatten(S \ {n})

AllHandlers == Flatten(DOMAIN handlers)

Idle == stack = <<>> /\ ~panicked

\* A handler is a function value: the model names it by the place it is
\* registered at and the bus instance it is registered with (gen), and keeps
\* the behaviour of its body.
Handler(filter, event, kind) ==
    LET name == uniqueName([filter |-> filter, event |-> event]) IN
    [id |-> <<name, IF name \in DOMAIN handlers
                    THEN Len(handlers[name].handlers) + 1 ELSE 1>>,
     kind |-> kind, gen |-> resets]

Register(filter, event, kind) ==
    /\ Idle
    /\ ids' = ids + 1
    /\ last' = "Register"
    /\ handlers' = RegisterHandler(handlers,
                      NewRegistration(filter, event, Handler(filter, event, kind)))
    /\ registered' =
          LET pair == <<filter, event>>
              h == Handler(filter, event, kind)
          IN [q \in DOMAIN registered \cup {pair} |->
                IF q = pair
                THEN (IF q \in DOMAIN registered THEN registered[q] ELSE <<>>) \o <<h>>
                ELSE registered[q]]
    /\ UNCHANGED <<sent, stack, panicked, sends, sending, succ, sentBefore,
                   invoked, deliveries, deadLetters, resets, probe, regex,
                   callers, appState, threads, chains>>

newBus == [handlers |-> [n \in {} |-> 0], sent |-> 0]

---------------------------------------------------------------------------
(* Regex: the values *)

Goroutines == 1..MaxGoroutines

\* a *regexp.Regexp: nil, or the expression it was compiled from
NilRegexp == [compiled |-> FALSE, expr |-> ""]

NewRegex(pattern) == [Pattern |-> pattern, Regex |-> NilRegexp, lock |-> FALSE]

\* a *syntax.Error: its Code and Expr; NoParseError is the nil error
NoParseError == [Code |-> "", Expr |-> ""]

\* regexp.Compile's parse of a pattern of literals and groups: the error of
\* the first ")" without a "(" before it, or of a "(" left open at the end
RECURSIVE ParseError(_, _, _)
ParseError(pattern, i, depth) ==
    IF i > Len(pattern)
    THEN (IF depth = 0 THEN NoParseError
          ELSE [Code |-> "missing closing )", Expr |-> pattern])
    ELSE IF SubSeq(pattern, i, i) = "("
         THEN ParseError(pattern, i + 1, depth + 1)
    ELSE IF SubSeq(pattern, i, i) = ")"
         THEN (IF depth = 0
               THEN [Code |-> "unexpected )", Expr |-> pattern]
               ELSE ParseError(pattern, i + 1, depth - 1))
    ELSE ParseError(pattern, i + 1, depth)

Compile(pattern) ==
    LET err == ParseError(pattern, 1, 0) IN
    IF err = NoParseError
    THEN [Regex |-> [compiled |-> TRUE, expr |-> pattern], err |-> NoParseError]
    ELSE [Regex |-> NilRegexp, err |-> err]

\* the literal a compiled pattern of literals and groups stands for
RECURSIVE Literal(_)
Literal(expr) ==
    IF Len(expr) = 0 THEN ""
    ELSE IF SubSeq(expr, 1, 1) \in {"(", ")"}
         THEN Literal(SubSeq(expr, 2, Len(expr)))
         ELSE SubSeq(expr, 1, 1) \o Literal(SubSeq(expr, 2, Len(expr)))

\* Regexp.MatchString: the target holds a match of the expression
MatchString(re, target) ==
    LET l == Literal(re.expr) IN
    \E i \in 1..(Len(target) - Len(l) + 1) :
        SubSeq(target, i, i + Len(l) - 1) = l

NoCaller == [pc |-> "idle", op |-> "", target |-> "", ret |-> ""]

---------------------------------------------------------------------------
(* State: the values *)

AppStarting == 0
AppRunning == 1
AppStopping == 2
AppStopped == 3
AppPaused == 4
AppErrored == 5

ApplicationStates ==
    {AppStarting, AppRunning, AppStopping, AppStopped, AppPaused, AppErrored}

\* a *Configuration is a sequence: empty for nil, else of the one value
NilConfiguration == <<>>

NewConfiguration(filename, writeInHome, defaults) ==
    [filename |-> filename, writeInHome |-> writeInHome, defaults |-> defaults]

\* A string of the State's names is the sequence of its code points, so
\* that it can hold every character: "app" is <<97, 112, 112>>.

\* unicode.IsSpace: \t, \n, \v, \f, \r, space, U+0085, U+00A0, and the
\* characters of the White_Space property above Latin-1: U+1680, U+2000 to
\* U+200A, U+2028, U+2029, U+202F, U+205F and U+3000
IsSpace(r) ==
    \/ r \in {9, 10, 11, 12, 13, 32, 133, 160}
    \/ r \in {5760, 8232, 8233, 8239, 8287, 12288}
    \/ r \in 8192..8202

\* strings.TrimSpace: all leading and trailing white space removed
RECURSIVE TrimSpace(_)
TrimSpace(s) ==
    IF Len(s) > 0 /\ IsSpace(s[1])
    THEN TrimSpace(SubSeq(s, 2, Len(s)))
    ELSE IF Len(s) > 0 /\ IsSpace(s[Len(s)])
         THEN TrimSpace(SubSeq(s, 1, Len(s) - 1))
         ELSE s

IsEmpty(value) == TrimSpace(value) = <<>>

\* the State that CurrentState builds: Starting, every other field zero,
\* the embedded Mutex unlocked
\* a Properties value is a map: nil, or made
NilProperties == [isNil |-> TRUE, entries |-> NilMap]

NewState ==
    [state |-> AppStarting, errored |-> FALSE, stopTime |-> "zero",
     properties |-> NilProperties,
     config |-> NilConfiguration, configFileName |-> <<>>,
     appName |-> <<>>,
     useHomeDir |-> FALSE, Mutex |-> FALSE]

Threads == 1..MaxThreads

\* a goroutine's call: its position, the exported function it entered by,
\* configFile's local appName, the arguments name and value of the State's
\* property methods, and the source, error, message and arguments of the
\* functions that report an error
\* a nil error
NoError == "<nil>"

NoThread ==
    [pc |-> "idle", via |-> "", appName |-> <<>>, name |-> "", value |-> "",
     source |-> "", err |-> NoError, msg |-> "", args |-> <<>>]

\* The variables stack, sending, succ, sentBefore, invoked, deliveries and
\* deadLetters describe one top-level Send and the calls nested in it. When
\* goroutines send at the same time, they describe the Send of the
\* goroutine chains.cur, whose step is taken next, and chains.parked holds
\* the others' (goroutine 0 is the application of the specifications in
\* which one goroutine sends).
NoChain ==
    [stack |-> <<>>, sending |-> NoEvent, succ |-> 0, sentBefore |-> 0,
     invoked |-> [h \in {} |-> 0], deliveries |-> {}, deadLetters |-> {}]

NoChains == [cur |-> 0, parked |-> [g \in 0..MaxThreads |-> NoChain]]

Init ==
    /\ handlers = newBus.handlers
    /\ sent = newBus.sent
    /\ stack = <<>>
    /\ panicked = FALSE
    /\ ids = 0
    /\ registered = [q \in {} |-> <<>>]
    /\ sends = 0
    /\ sending = NoEvent
    /\ succ = 0
    /\ sentBefore = 0
    /\ invoked = [h \in {} |-> 0]
    /\ deliveries = {}
    /\ deadLetters = {}
    /\ last = ""
    /\ resets = 0
    /\ probe = NoProbe
    /\ regex = NewRegex("")
    /\ callers = [g \in Goroutines |-> NoCaller]
    /\ appState = NewState
    /\ threads = [g \in Threads |-> NoThread]
    /\ chains = NoChains

---------------------------------------------------------------------------
(* Bus.Send *)

Applies_AnyType(registration, event) == Matches(event, registration.filter)

\* line 145: the type filter, line 146: the name filter
Applies(registration, event) ==
    /\ registration.event = NilEvent \/ registration.event = TypeOf(event)
    /\ Matches(event, registration.filter)

Shortfall_OneIsEnough(sentCnt) == sentCnt < 1

\* line 172
Shortfall(sentCnt) == sentCnt < 2

SliceFrom_AfterI(s, i) == MakeSlice(SubSeq(s.elems, i + 2, Len(s.elems)))

\* s[i:] of a slice; the caller checks the bound first
SliceFrom(s, i) == MakeSlice(SubSeq(s.elems, i + 1, Len(s.elems)))

\* the activation record of one Send call, at the head of the range loop;
\* ok counts the handler invocations of the call that returned nil, calls
\* the invocations of each handler, first is the goroutine of the present
\* registration that was the first to return an error (0: none yet)
Frame(event) ==
    [event |-> event, sentCnt |-> 0, pending |-> DOMAIN handlers,
     pc |-> "range", registration |-> "", cap |-> 0,
     missedHandlers |-> NilSlice, ranged |-> <<>>, g |-> <<>>, err |-> nilErr, ok |-> 0, calls |-> <<>>, first |-> 0]

\* one more invocation of the handler id in the record calls
Count(calls, id) ==
    [h \in DOMAIN calls \cup {id} |->
        (IF h \in DOMAIN calls THEN calls[h] ELSE 0) + (IF h = id THEN 1 ELSE 0)]

Goroutine == [pc |-> "call", n |-> 0, s |-> NilSlice, err |-> nilErr]

Depth == Len(stack)
Top == stack[Depth]
Running == Depth > 0 /\ ~panicked
SetTop(f) == [stack EXCEPT ![Depth] = f]

IsNil_Never(event) == FALSE

\* line 137
IsNil(event) == event = NoEvent

\* a call of EventBus.Send with an event that is not nil begins: the first
\* activation record, and the history of the call
StartSend(event) ==
    /\ sends' = sends + 1
    /\ sending' = event
    /\ stack' = <<Frame(event)>>
    /\ sentBefore' = sent
    /\ succ' = 0
    /\ invoked' = [h \in {AllHandlers[j].id : j \in DOMAIN AllHandlers} |-> 0]
    /\ deliveries' = {}
    /\ deadLetters' = {}

\* EventBus.Send(event) called by the application; line 137-139: with a nil
\* event it returns at once
Send(event) ==
    /\ Idle
    /\ last' = IF event = NoEvent THEN "Send(nil)" ELSE "Send"
    /\ IF IsNil(event)
       THEN UNCHANGED <<handlers, sent, stack, panicked, ids, registered,
                        sends, sending, succ, sentBefore, invoked, deliveries,
                        deadLetters, resets, probe, regex, callers, appState,
                        threads, chains>>
       ELSE /\ sends < MaxSends
            /\ StartSend(event)
            /\ UNCHANGED <<handlers, sent, panicked, ids, registered, resets,
                           probe, regex, callers, appState, threads, chains>>

ClearRegistrations_NewBus ==
    /\ Idle
    /\ last' = "ClearRegistrations"
    /\ handlers' = newBus.handlers
    /\ sent' = newBus.sent
    /\ registered' = [q \in {} |-> <<>>]
    /\ ids' = 0
    /\ UNCHANGED <<stack, panicked, sends, sending, succ, sentBefore, invoked,
                   deliveries, deadLetters, resets, probe, regex, callers,
                   appState, threads, chains>>

\* line 186-188
ClearRegistrations ==
    /\ Idle
    /\ last' = "ClearRegistrations"
    /\ handlers' = [n \in {} |-> 0]
    /\ registered' = [q \in {} |-> <<>>]
    /\ ids' = 0
    /\ UNCHANGED <<sent, stack, panicked, sends, sending, succ, sentBefore,
                   invoked, deliveries, deadLetters, resets, probe, regex,
                   callers, appState, threads, chains>>

Reset_KeepTable ==
    /\ Idle
    /\ resets < MaxResets
    /\ resets' = resets + 1
    /\ last' = "Reset"
    /\ sent' = newBus.sent
    /\ UNCHANGED <<handlers, registered, ids, stack, panicked, sends, sending,
                   succ, sentBefore, invoked, deliveries, deadLetters, probe,
                   regex, callers, appState, threads, chains>>

\* line 190-192: EventBus is a new bus
Reset ==
    /\ Idle
    /\ resets < MaxResets
    /\ resets' = resets + 1
    /\ last' = "Reset"
    /\ handlers' = newBus.handlers
    /\ sent' = newBus.sent
    /\ registered' = [q \in {} |-> <<>>]
    /\ ids' = 0
    /\ UNCHANGED <<stack, panicked, sends, sending, succ, sentBefore, invoked,
                   deliveries, deadLetters, probe, regex, callers, appState,
                   threads, chains>>

\* line 144-147: the range loop takes the next registration of the map and
\* tests its prototype and its filter
Range(name) ==
    /\ Running
    /\ Top.pc = "range"
    /\ name \in Top.pending
    /\ LET registration == handlers[name] IN
       IF Applies(registration, Top.event)
       THEN stack' = SetTop([Top EXCEPT
                !.pending = @ \ {name},
                !.registration = name,
                !.err = nilErr,
                !.first = 0,
                !.pc = "make"])
       ELSE stack' = SetTop([Top EXCEPT !.pending = @ \ {name}])
    /\ UNCHANGED <<handlers, sent, panicked, ids, registered, sends, sending,
                   succ, sentBefore, invoked, deliveries, deadLetters, last,
                   resets, probe, regex, callers, appState, threads, chains>>

\* line 148: the first read of registration.handlers, for the capacity of
\* the empty slice missedHandlers
MakeMissed ==
    /\ Running
    /\ Top.pc = "make"
    /\ stack' = SetTop([Top EXCEPT
          !.cap = Len(handlers[Top.registration].handlers),
          !.missedHandlers = MakeSlice(<<>>),
          !.pc = "append"])
    /\ UNCHANGED <<handlers, sent, panicked, ids, registered, sends, sending,
                   succ, sentBefore, invoked, deliveries, deadLetters, last,
                   resets, probe, regex, callers, appState, threads, chains>>

\* line 149: the second read of registration.handlers, copied to
\* missedHandlers (append grows the slice when the capacity is short)
AppendMissed ==
    /\ Running
    /\ Top.pc = "append"
    /\ stack' = SetTop([Top EXCEPT
          !.missedHandlers =
              MakeSlice(@.elems \o handlers[Top.registration].handlers),
          !.pc = "fanout"])
    /\ UNCHANGED <<handlers, sent, panicked, ids, registered, sends, sending,
                   succ, sentBefore, invoked, deliveries, deadLetters, last,
                   resets, probe, regex, callers, appState, threads, chains>>

\* line 150-164: the third read of registration.handlers: the range
\* expression is evaluated once, and one goroutine is started per handler
\* of that value
FanOut ==
    /\ Running
    /\ Top.pc = "fanout"
    /\ stack' = SetTop([Top EXCEPT
          !.ranged = handlers[Top.registration].handlers,
          !.g = [k \in 1..Len(handlers[Top.registration].handlers) |->
                    Goroutine],
          !.pc = "wait"])
    /\ UNCHANGED <<handlers, sent, panicked, ids, registered, sends, sending,
                   succ, sentBefore, invoked, deliveries, deadLetters, last,
                   resets, probe, regex, callers, appState, threads, chains>>

\* line 154-160: handler(event) returns; on success the goroutine loads
\* b.sent, on failure it loads missedHandlers and slices it from i
HandlerCall(k) ==
    /\ Running
    /\ Top.pc = "wait"
    /\ k \in DOMAIN Top.g
    /\ Top.g[k].pc = "call"
    /\ LET registration == handlers[Top.registration]
           handler == Top.ranged[k]
           err == Call(handler, Top.event)
           i == k - 1
       IN /\ invoked' = [invoked EXCEPT ![handler.id] = @ + 1]
          /\ deliveries' = deliveries \cup
                {[name |-> Top.registration, filter |-> registration.filter,
                  proto |-> registration.event, handler |-> handler,
                  event |-> Top.event, err |-> err, bus |-> resets]}
          /\ IF err = nilErr
             THEN /\ succ' = succ + 1
                  /\ stack' = SetTop([Top EXCEPT
                        !.ok = @ + 1,
                        !.calls = Count(@, handler.id),
                        !.g[k] = [@ EXCEPT !.pc = "storeSent", !.n = sent]])
                  /\ UNCHANGED panicked
             ELSE /\ UNCHANGED succ
                  /\ IF i > Len(Top.missedHandlers.elems)
                     THEN /\ panicked' = TRUE
                          /\ UNCHANGED stack
                     ELSE /\ UNCHANGED panicked
                          /\ stack' = SetTop([Top EXCEPT
                                !.calls = Count(@, handler.id),
                                !.g[k] = [@ EXCEPT !.pc = "storeMissed",
                                    !.s = SliceFrom(Top.missedHandlers, i),
                                    !.err = err]])
    /\ UNCHANGED <<handlers, sent, ids, registered, sends, sending,
                   sentBefore, deadLetters, last, resets, probe, regex,
                   callers, appState, threads, chains>>

StoreSent_NoIncrement(k) ==
    /\ Running
    /\ Top.pc = "wait"
    /\ k \in DOMAIN Top.g
    /\ Top.g[k].pc = "storeSent"
    /\ sent' = IF Top.ok > 1 THEN Top.g[k].n ELSE Top.g[k].n + 1
    /\ stack' = SetTop([Top EXCEPT !.g[k].pc = "loadCnt"])
    /\ UNCHANGED <<handlers, panicked, ids, registered, sends, sending, succ,
                   sentBefore, invoked, deliveries, deadLetters, last, resets,
                   probe, regex, callers, appState, threads, chains>>

\* line 156: b.sent++ stores the incremented value it loaded
StoreSent(k) ==
    /\ Running
    /\ Top.pc = "wait"
    /\ k \in DOMAIN Top.g
    /\ Top.g[k].pc = "storeSent"
    /\ sent' = Top.g[k].n + 1
    /\ stack' = SetTop([Top EXCEPT !.g[k].pc = "loadCnt"])
    /\ UNCHANGED <<handlers, panicked, ids, registered, sends, sending, succ,
                   sentBefore, invoked, deliveries, deadLetters, last, resets,
                   probe, regex, callers, appState, threads, chains>>

\* line 157: sentCnt++ loads sentCnt
LoadCnt(k) ==
    /\ Running
    /\ Top.pc = "wait"
    /\ k \in DOMAIN Top.g
    /\ Top.g[k].pc = "loadCnt"
    /\ stack' = SetTop([Top EXCEPT
            !.g[k] = [@ EXCEPT !.pc = "storeCnt", !.n = Top.sentCnt]])
    /\ UNCHANGED <<handlers, sent, panicked, ids, registered, sends, sending,
                   succ, sentBefore, invoked, deliveries, deadLetters, last,
                   resets, probe, regex, callers, appState, threads, chains>>

\* line 157-158: sentCnt++ stores, the closure returns nil
StoreCnt(k) ==
    /\ Running
    /\ Top.pc = "wait"
    /\ k \in DOMAIN Top.g
    /\ Top.g[k].pc = "storeCnt"
    /\ stack' = SetTop([Top EXCEPT
            !.sentCnt = Top.g[k].n + 1, !.g[k].pc = "done"])
    /\ UNCHANGED <<handlers, sent, panicked, ids, registered, sends, sending,
                   succ, sentBefore, invoked, deliveries, deadLetters, last,
                   resets, probe, regex, callers, appState, threads, chains>>

StoreMissed_InTable(k) ==
    /\ Running
    /\ Top.pc = "wait"
    /\ k \in DOMAIN Top.g
    /\ Top.g[k].pc = "storeMissed"
    /\ stack' = SetTop([Top EXCEPT
            !.missedHandlers = Top.g[k].s, !.g[k].pc = "return"])
    /\ handlers' = [handlers EXCEPT ![Top.registration].handlers = Top.g[k].s.elems]
    /\ UNCHANGED <<sent, panicked, ids, registered, sends, sending, succ,
                   sentBefore, invoked, deliveries, deadLetters, last, resets,
                   probe, regex, callers, appState, threads, chains>>

\* line 160: missedHandlers is assigned the slice
StoreMissed(k) ==
    /\ Running
    /\ Top.pc = "wait"
    /\ k \in DOMAIN Top.g
    /\ Top.g[k].pc = "storeMissed"
    /\ stack' = SetTop([Top EXCEPT
            !.missedHandlers = Top.g[k].s, !.g[k].pc = "return"])
    /\ UNCHANGED <<handlers, sent, panicked, ids, registered, sends, sending,
                   succ, sentBefore, invoked, deliveries, deadLetters, last,
                   resets, probe, regex, callers, appState, threads, chains>>

ReturnErr_LastError(k) ==
    /\ Running
    /\ Top.pc = "wait"
    /\ k \in DOMAIN Top.g
    /\ Top.g[k].pc = "return"
    /\ stack' = SetTop([Top EXCEPT
            !.err = Top.g[k].err,
            !.first = IF @ = 0 THEN k ELSE @,
            !.g[k].pc = "done"])
    /\ UNCHANGED <<handlers, sent, panicked, ids, registered, sends, sending,
                   succ, sentBefore, invoked, deliveries, deadLetters, last,
                   resets, probe, regex, callers, appState, threads, chains>>

\* line 161: the closure returns err; errgroup keeps the first error
ReturnErr(k) ==
    /\ Running
    /\ Top.pc = "wait"
    /\ k \in DOMAIN Top.g
    /\ Top.g[k].pc = "return"
    /\ stack' = SetTop([Top EXCEPT
            !.err = IF @ = nilErr THEN Top.g[k].err ELSE @,
            !.first = IF @ = 0 THEN k ELSE @,
            !.g[k].pc = "done"])
    /\ UNCHANGED <<handlers, sent, panicked, ids, registered, sends, sending,
                   succ, sentBefore, invoked, deliveries, deadLetters, last,
                   resets, probe, regex, callers, appState, threads, chains>>

AllDone_FirstError(f) ==
    \/ \A k \in DOMAIN f.g : f.g[k].pc = "done"
    \/ f.err # nilErr

\* eg.Wait() returns when every goroutine of the group has returned
AllDone(f) == \A k \in DOMAIN f.g : f.g[k].pc = "done"

\* line 165: eg.Wait() returns nil, the loop goes on
WaitOk ==
    /\ Running
    /\ Top.pc = "wait"
    /\ AllDone(Top)
    /\ Top.err = nilErr
    /\ stack' = SetTop([Top EXCEPT !.pc = "range"])
    /\ UNCHANGED <<handlers, sent, panicked, ids, registered, sends, sending,
                   succ, sentBefore, invoked, deliveries, deadLetters, last,
                   resets, probe, regex, callers, appState, threads, chains>>

WaitErr_Early ==
    /\ Running
    /\ Top.pc = "wait"
    /\ Top.err # nilErr
    /\ Depth < MaxDepth
    /\ LET dl == NewDeadLetterEvent(Top.event, Top.err, Top.missedHandlers) IN
       /\ stack' = Append(SetTop([Top EXCEPT !.pc = "range"]), Frame(dl))
       /\ deadLetters' = deadLetters \cup
            {[dl |-> dl, cause |-> "failure", of |-> Top.event,
              name |-> Top.registration, missed |-> Top.missedHandlers,
              handlers |-> Top.ranged,
              errs |-> {Top.g[k].err : k \in DOMAIN Top.g} \ {nilErr},
              ok |-> Top.ok, depth |-> Depth]}
    /\ UNCHANGED <<handlers, sent, panicked, ids, registered, sends, sending,
                   succ, sentBefore, invoked, deliveries, last, resets, probe,
                   regex, callers, appState, threads, chains>>

\* line 165-166: eg.Wait() returns an error, Send calls itself
WaitErr ==
    /\ Running
    /\ Top.pc = "wait"
    /\ AllDone(Top)
    /\ Top.err # nilErr
    /\ Depth < MaxDepth
    /\ LET dl == NewDeadLetterEvent(Top.event, Top.err, Top.missedHandlers) IN
       /\ stack' = Append(SetTop([Top EXCEPT !.pc = "range"]), Frame(dl))
       /\ deadLetters' = deadLetters \cup
            {[dl |-> dl, cause |-> "failure", of |-> Top.event,
              name |-> Top.registration, missed |-> Top.missedHandlers,
              handlers |-> Top.ranged,
              errs |-> {Top.g[k].err : k \in DOMAIN Top.g} \ {nilErr},
              ok |-> Top.ok, depth |-> Depth]}
    /\ UNCHANGED <<handlers, sent, panicked, ids, registered, sends, sending,
                   succ, sentBefore, invoked, deliveries, last, resets, probe,
                   regex, callers, appState, threads, chains>>

SendShortfall_NotForDeadLetters ==
    /\ Running
    /\ Top.pc = "range"
    /\ Top.pending = {}
    /\ Shortfall(Top.sentCnt)
    /\ IF Top.event.type = DeadLetterEventType
       THEN /\ stack' = SubSeq(stack, 1, Depth - 1)
            /\ UNCHANGED deadLetters
       ELSE /\ Depth < MaxDepth
            /\ LET dl == NewDeadLetterEvent(Top.event, NoHandlerError(Top.event),
                                            NilSlice) IN
               /\ stack' = Append(SetTop([Top EXCEPT !.pc = "return"]), Frame(dl))
               /\ deadLetters' = deadLetters \cup
                    {[dl |-> dl, cause |-> "shortfall", of |-> Top.event,
                      name |-> "", missed |-> NilSlice, handlers |-> <<>>,
                      errs |-> {}, ok |-> Top.ok, depth |-> Depth]}
    /\ UNCHANGED <<handlers, sent, panicked, ids, registered, sends, sending,
                   succ, sentBefore, invoked, deliveries, last, resets, probe,
                   regex, callers, appState, threads, chains>>

\* line 172-174: after the loop, too few deliveries: Send calls itself
SendShortfall ==
    /\ Running
    /\ Top.pc = "range"
    /\ Top.pending = {}
    /\ Shortfall(Top.sentCnt)
    /\ Depth < MaxDepth
    /\ LET dl == NewDeadLetterEvent(Top.event, NoHandlerError(Top.event), NilSlice) IN
       /\ stack' = Append(SetTop([Top EXCEPT !.pc = "return"]), Frame(dl))
       /\ deadLetters' = deadLetters \cup
            {[dl |-> dl, cause |-> "shortfall", of |-> Top.event,
              name |-> "", missed |-> NilSlice, handlers |-> <<>>, errs |-> {},
              ok |-> Top.ok, depth |-> Depth]}
    /\ UNCHANGED <<handlers, sent, panicked, ids, registered, sends, sending,
                   succ, sentBefore, invoked, deliveries, last, resets, probe,
                   regex, callers, appState, threads, chains>>

\* line 176: Send returns
Return ==
    /\ Running
    /\ \/ Top.pc = "return"
       \/ Top.pc = "range" /\ Top.pending = {} /\ ~Shortfall(Top.sentCnt)
    /\ stack' = SubSeq(stack, 1, Depth - 1)
    /\ UNCHANGED <<handlers, sent, panicked, ids, registered, sends, sending,
                   succ, sentBefore, invoked, deliveries, deadLetters, last,
                   resets, probe, regex, callers, appState, threads, chains>>

\* line 173 when the goroutine's stack holds no further call of Send: the
\* runtime stops the process with "fatal error: stack overflow". MaxDepth
\* stands for the number of nested calls that the stack limit allows.
StackOverflow ==
    /\ Running
    /\ Top.pc = "range"
    /\ Top.pending = {}
    /\ Shortfall(Top.sentCnt)
    /\ Depth = MaxDepth
    /\ panicked' = TRUE
    /\ UNCHANGED <<handlers, sent, stack, ids, registered, sends, sending,
                   succ, sentBefore, invoked, deliveries, deadLetters, last,
                   resets, probe, regex, callers, appState, threads, chains>>

SendStep ==
    \/ \E name \in DOMAIN handlers : Range(name)
    \/ MakeMissed \/ AppendMissed \/ FanOut
    \/ /\ Running
       /\ \E k \in DOMAIN Top.g :
             HandlerCall(k) \/ StoreSent(k) \/ LoadCnt(k) \/ StoreCnt(k)
               \/ StoreMissed(k) \/ ReturnErr(k)
    \/ WaitOk \/ WaitErr \/ SendShortfall \/ Return

---------------------------------------------------------------------------
(* The application: the handlers of event_test.go, each registered with   *)
(* its filter and prototype, and a global handler (nil prototype); every   *)
(* handler is registered once, in any order, before or between the Sends   *)

Subscriptions ==
    { <<"suzy", TestEventType, "expectReg1">>,
      <<"suzy", TestEventType, "expectReg2">>,
      <<"suzy", TestEventType, "empty">>,
      <<"2suzy", TestEventType, "empty">>,
      <<"*", DeadLetterEventType, "deadLetterSink">>,
      <<"*", NilEvent, "empty">> }

Events ==
    { newTestEventDetailed("suzy", "Reg 1"),
      NewLogEventDetailed("suzy", "Reg 1") }

\* the handler of the subscription r is registered
Subscribed(r) ==
    /\ <<r[1], r[2]>> \in DOMAIN registered
    /\ \E k \in DOMAIN registered[<<r[1], r[2]>>] :
          registered[<<r[1], r[2]>>][k].kind = r[3]

Next ==
    \/ \E r \in Subscriptions :
          /\ ~Subscribed(r)
          /\ Register(r[1], r[2], r[3])
    \/ \E event \in Events : Send(event)
    \/ SendStep

Spec == Init /\ [][Next]_vars

---------------------------------------------------------------------------
(* The scenarios of event_test.go *)

SuzyName == uniqueName([filter |-> "suzy", event |-> TestEventType])
Suzy2Name == uniqueName([filter |-> "2suzy", event |-> TestEventType])
SinkName == uniqueName([filter |-> "*", event |-> DeadLetterEventType])
SinkId == <<SinkName, 1>>

Kind(name) == [k \in DOMAIN handlers[name].handlers |-> handlers[name].handlers[k].kind]

Reg1Event == newTestEventDetailed("suzy", "Reg 1")

\* the first Send of the bus has been called, and has returned
Returned == stack = <<>> /\ ~panicked

\* TestFailedSendCapturesMissedEventHandlers: two handlers under ("suzy",
\* TestEvent), one expecting "Reg 1" and one expecting "Reg 2", and one
\* dead-letter subscriber; the event sent is ("suzy", "Reg 1")
FailedSendScenario ==
    /\ sends = 1
    /\ sending = Reg1Event
    /\ DOMAIN handlers = {SuzyName, SinkName}
    /\ Kind(SuzyName) \in {<<"expectReg1", "expectReg2">>, <<"expectReg2", "expectReg1">>}
    /\ Kind(SinkName) = <<"deadLetterSink">>

\* C1: in the scenario of TestFailedSendCapturesMissedEventHandlers the
\* dead-letter subscriber is invoked exactly once and Sent() is 2 when Send
\* returns; the number of invocations only grows during the Send, so it is
\* never above 1 before.
C1_DeadLetterOnce ==
    FailedSendScenario =>
        /\ invoked[SinkId] <= 1
        /\ Returned => invoked[SinkId] = 1 /\ sent = 2

\* TestReceiveEvent: one handler under ("suzy", TestEvent) expecting "Reg 1",
\* one under ("2suzy", TestEvent), one dead-letter subscriber
ReceiveEventScenario ==
    /\ sends = 1
    /\ sending = Reg1Event
    /\ DOMAIN handlers = {SuzyName, Suzy2Name, SinkName}
    /\ Kind(SuzyName) = <<"expectReg1">>
    /\ Kind(Suzy2Name) = <<"empty">>
    /\ Kind(SinkName) = <<"deadLetterSink">>

\* C2: in the scenario of TestReceiveEvent the dead-letter subscriber is
\* never invoked, and Sent() is 1 when Send returns.
C2_NoDeadLetter ==
    ReceiveEventScenario =>
        /\ invoked[SinkId] = 0
        /\ Returned => sent = 1


---------------------------------------------------------------------------
(* The delivery-shortfall rule *)

ShortfallEvent(event) ==
    [type |-> DeadLetterEventType, TypeName |-> "dead-letter",
     Msg |-> "No handler(s) for event " \o event.TypeName \o " found",
     DataMap |-> [event |-> event, handlers |-> NilSlice]]

\* a Send call has scanned every registration
Scanned == Running /\ Top.pc = "range" /\ Top.pending = {}

\* C3: a Send call (of any event, a dead-letter event included) that has
\* scanned the registrations with fewer than 2 successful handler
\* invocations calls Send once more, with the dead-letter event of the "No
\* handler(s)" error and a nil handler list, and returns when that call
\* has returned.
C3_ShortfallRule ==
    [][/\ (Scanned /\ Top.ok < 2) =>
            /\ Len(stack') = Depth + 1
            /\ stack'[Depth + 1].event = ShortfallEvent(Top.event)
            /\ stack'[Depth + 1].pc = "range"
            /\ stack'[Depth].pc = "return"
       /\ (Running /\ Top.pc = "return") => Len(stack') = Depth - 1
      ]_vars

\* one handler matched and succeeded, none failed, and the dead-letter Send
\* of the shortfall is running
C3_Witness ==
    /\ Depth = 2
    /\ ~panicked
    /\ stack[1].ok = 1
    /\ stack[1].pc = "return"
    /\ \A d \in deliveries : d.event = stack[1].event => d.err = nilErr
    /\ stack[2].event = ShortfallEvent(sending)


---------------------------------------------------------------------------
(* The registration table under Register calls alone: any filter, among   *)
(* them one that ends in "-" and a type name, with any prototype          *)

RegFilters == {"suzy", "*", "suzy-" \o String(TestEventType)}

\* the prototypes: nil, two event types of this package, and the TestEvent
\* that a package of the same name under another import path declares
RegProtos ==
    {NilEvent, TestEventType, DeadLetterEventType,
     PtrTo("example.com/fork/golang-utils", "golang_utils", "TestEvent")}

NextRegister ==
    \E filter \in RegFilters, event \in RegProtos :
        /\ ids < MaxRegs
        /\ Register(filter, event, "empty")

SpecRegister == Init /\ [][NextRegister]_vars

\* the table entries made for the pair q = <<filter, prototype>>
EntriesOf(q) ==
    {n \in DOMAIN handlers :
        handlers[n].filter = q[1] /\ handlers[n].event = q[2]}

\* C4: the table holds exactly one entry per distinct (filter, event type)
\* pair registered, and the entry's handler list is the list of the handlers
\* registered with that pair, in the order of the Register calls.
C4_OneEntryPerPair ==
    /\ Cardinality(DOMAIN handlers) = Cardinality(DOMAIN registered)
    /\ \A q \in DOMAIN registered :
          /\ Cardinality(EntriesOf(q)) = 1
          /\ \A n \in EntriesOf(q) : handlers[n].handlers = registered[q]

\* the names of the table entries that hold the handler h
Holding(h) ==
    {n \in DOMAIN handlers :
        \E k \in DOMAIN handlers[n].handlers : handlers[n].handlers[k] = h}

\* two registered pairs with the same filter and different prototypes
SameFilterPairs ==
    {qq \in (DOMAIN registered) \X (DOMAIN registered) :
        qq[1][1] = qq[2][1] /\ qq[1][2] # qq[2][2]}

\* C10: handlers registered with the same filter and prototypes of
\* different types (or one nil prototype and one typed) are held by
\* distinct table entries: no entry holds a handler of both.
C10_SameFilterDistinctTypes ==
    \A qq \in SameFilterPairs :
        \A k1 \in DOMAIN registered[qq[1]], k2 \in DOMAIN registered[qq[2]] :
            /\ Holding(registered[qq[1]][k1]) # {}
            /\ Holding(registered[qq[2]][k2]) # {}
            /\ Holding(registered[qq[1]][k1]) \cap Holding(registered[qq[2]][k2]) = {}


---------------------------------------------------------------------------
(* Which handlers a Send invokes *)

\* the <<filter, prototype>> pairs the handler h was registered with
PairsOf(h) ==
    {q \in DOMAIN registered :
        \E k \in DOMAIN registered[q] : registered[q][k] = h}

\* C5: a handler is invoked with an event only if the registration it was
\* registered with is applicable to the event: its prototype is nil or of
\* the concrete type of the event, and the event matches its filter.  No
\* handler registered for TestEvent is invoked with an event of another
\* type, none registered with filter "2suzy" with an event named "suzy".
C5_OnlyApplicable ==
    \A d \in deliveries :
        /\ d.event \in {stack[j].event : j \in 1..Depth} \cup {sending}
               \cup {l.dl : l \in deadLetters}
        /\ \A q \in PairsOf(d.handler) :
              /\ q[2] = NilEvent \/ q[2] = d.event.type
              /\ Matches(d.event, q[1])
              /\ q[2] = TestEventType => d.event.type = TestEventType
              /\ q[1] = "2suzy" => d.event.TypeName # "suzy"

\* the event named "suzy" and a dead-letter event have both been delivered
\* while the table holds a registration of another type and one whose
\* filter does not match
C5_Witness ==
    /\ {SuzyName, Suzy2Name, SinkName} \subseteq DOMAIN handlers
    /\ \E d \in deliveries : d.event = sending /\ d.event.TypeName = "suzy"
    /\ \E d \in deliveries : d.event.type = DeadLetterEventType
    /\ Depth >= 2 /\ Top.pending = {}


---------------------------------------------------------------------------
(* One registration with up to four handlers, two of them failing for the *)
(* event sent                                                              *)

FanSubscriptions ==
    { <<"suzy", TestEventType, "expectReg1">>,
      <<"suzy", TestEventType, "empty">>,
      <<"suzy", TestEventType, "expectReg2">>,
      <<"suzy", TestEventType, "expectReg3">> }

NextFan ==
    \/ \E r \in FanSubscriptions :
          /\ ~Subscribed(r)
          /\ Register(r[1], r[2], r[3])
    \/ Send(Reg1Event)
    \/ SendStep

SpecFan == Init /\ [][NextFan]_vars

\* C6: Send never panics, whatever the registration table and whichever
\* handlers fail.
C6_NeverPanics == ~panicked

\* C7: when a top-level Send has returned, Sent() is Sent() before the call
\* plus the number of handler invocations of the call (recursive dead-letter
\* Sends included) that returned no error.
C7_NoLostIncrements ==
    (sends >= 1 /\ Returned) => sent = sentBefore + succ


---------------------------------------------------------------------------
(* The dead-letter event of a failed handler *)

\* the dead-letter Sends made because a handler failed
FailureLetters == {d \in deadLetters : d.cause = "failure"}

\* the invocations of the handlers of d's registration with d's event that
\* returned an error
Failed(d) ==
    {x \in deliveries : x.name = d.name /\ x.event = d.of /\ x.err # nilErr}

\* C8: a dead-letter event sent because a handler failed is named
\* "dead-letter", its message is the error text a handler of the registration
\* returned for the event, and its data maps "event" to the event being
\* delivered and "handlers" to the missed-handler list.
C8_DeadLetterContents ==
    \A d \in FailureLetters :
        /\ d.dl.type = DeadLetterEventType
        /\ d.dl.TypeName = "dead-letter"
        /\ d.dl.Msg \in {x.err : x \in Failed(d)}
        /\ DOMAIN d.dl.DataMap = {"event", "handlers"}
        /\ d.dl.DataMap["event"] = d.of
        /\ d.dl.DataMap["handlers"] = d.missed

\* the dead-letter event of the handler expecting "Reg 2" has reached the
\* dead-letter subscriber
C8_Witness ==
    \E d \in FailureLetters :
        /\ d.of = Reg1Event
        /\ d.dl.Msg = "expected Reg 2, got Reg 1"
        /\ \E x \in deliveries : x.event = d.dl /\ x.handler.id = SinkId

\* the registration of d had exactly one failing handler, all others succeeded
OneFailed(d) ==
    /\ Cardinality(Failed(d)) = 1
    /\ Cardinality({x \in deliveries : x.name = d.name /\ x.event = d.of})
          = Len(d.handlers)

\* the position of that handler in the handler list of the registration
FailedAt(d) == CHOOSE k \in DOMAIN d.handlers :
                  \E x \in Failed(d) : x.handler = d.handlers[k]

\* C9 as claimed: with exactly one failing handler the "handlers" list of
\* the dead-letter event has length 1 and holds exactly that handler.
C9_ExactlyTheFailed ==
    \A d \in FailureLetters :
        OneFailed(d) =>
            /\ Len(d.dl.DataMap["handlers"].elems) = 1
            /\ d.dl.DataMap["handlers"].elems[1] = d.handlers[FailedAt(d)]

\* C9 amended: with exactly one failing handler, at position k of the n
\* handlers of the registration, the "handlers" list is the suffix of the
\* handler list that starts at the failed handler; it has length 1 and holds
\* exactly the failed handler when that handler is the last of the list.
C9_SuffixFromFailed ==
    \A d \in FailureLetters :
        OneFailed(d) =>
            /\ ~d.dl.DataMap["handlers"].isNil
            /\ d.dl.DataMap["handlers"].elems =
                  SubSeq(d.handlers, FailedAt(d), Len(d.handlers))
            /\ FailedAt(d) = Len(d.handlers) =>
                  d.dl.DataMap["handlers"].elems = <<d.handlers[FailedAt(d)]>>

\* one handler failed and a handler registered after it succeeded
C9_Witness ==
    \E d \in FailureLetters :
        /\ OneFailed(d)
        /\ FailedAt(d) < Len(d.handlers)
        /\ \E x \in deliveries : x.event = d.dl

\* one handler failed, the last of three
C9_WitnessLast ==
    \E d \in FailureLetters :
        /\ OneFailed(d)
        /\ FailedAt(d) = 3
        /\ Len(d.handlers) = 3


---------------------------------------------------------------------------
(* The methods of an event value, called on events of any name and data   *)
(* with any filter and key                                                 *)

EventNames == {"foobar", "barfoo", "foo", "fo", "!foo", "!foobar", "!", ""}
EventData ==
    { NilMap,
      [k \in {"domain"} |-> "orders"],
      [k \in {"domain", "event"} |-> IF k = "domain" THEN "???" ELSE ""] }
Filters == {"*", "foo", "!foo", "!!foo", "!", "!!", "", "bar", "!bar", "*foo"}
Keys == {"domain", "event", "handlers", ""}

\* e.Matches(filter)
CallMatches(filter) ==
    /\ probe' = [event |-> probe.event, op |-> "Matches", arg |-> filter,
                 out |-> Matches(probe.event, filter)]
    /\ UNCHANGED <<handlers, sent, stack, panicked, ids, registered, sends,
                   sending, succ, sentBefore, invoked, deliveries,
                   deadLetters, last, resets, regex, callers, appState,
                   threads, chains>>

\* e.Get(key)
CallGet(key) ==
    /\ probe' = [event |-> probe.event, op |-> "Get", arg |-> key,
                 out |-> Get(probe.event, key)]
    /\ UNCHANGED <<handlers, sent, stack, panicked, ids, registered, sends,
                   sending, succ, sentBefore, invoked, deliveries,
                   deadLetters, last, resets, regex, callers, appState,
                   threads, chains>>

InitEvent ==
    /\ handlers = newBus.handlers
    /\ sent = newBus.sent
    /\ stack = <<>>
    /\ panicked = FALSE
    /\ ids = 0
    /\ registered = [q \in {} |-> <<>>]
    /\ sends = 0
    /\ sending = NoEvent
    /\ succ = 0
    /\ sentBefore = 0
    /\ invoked = [h \in {} |-> 0]
    /\ deliveries = {}
    /\ deadLetters = {}
    /\ last = ""
    /\ resets = 0
    /\ \E name \in EventNames, data \in EventData :
          probe = [event |-> [type |-> TestEventType, TypeName |-> name,
                              Msg |-> "", DataMap |-> data],
                   op |-> "", arg |-> "", out |-> ""]
    /\ regex = NewRegex("")
    /\ callers = [g \in Goroutines |-> NoCaller]
    /\ appState = NewState
    /\ threads = [g \in Threads |-> NoThread]
    /\ chains = NoChains

NextEvent ==
    \/ \E filter \in Filters : CallMatches(filter)
    \/ \E key \in Keys : CallGet(key)

SpecEvent == InitEvent /\ [][NextEvent]_vars

\* the reference of the filter language: "*" matches every name, "!p" the
\* names that do not start with p, any other filter the names that start
\* with it
MatchesReference(n, f) ==
    IF f = "*" THEN TRUE
    ELSE IF HasPrefix(f, "!")
         THEN ~HasPrefix(n, SubSeq(f, 2, Len(f)))
         ELSE HasPrefix(n, f)

\* C11: for every event name n and filter f, Matches(f) is the reference:
\* true for "*"; for a filter that begins with "!", the negation of "n has
\* the prefix that is left when that one leading ! is removed"; otherwise "n
\* starts with f".  "!foo" rejects "foobar" and accepts "barfoo", "foo"
\* accepts "foobar" and rejects "barfoo".
C11_MatchesReference ==
    probe.op = "Matches" =>
        /\ probe.out = MatchesReference(probe.event.TypeName, probe.arg)
        /\ (probe.arg = "!foo" /\ probe.event.TypeName = "foobar") => ~probe.out
        /\ (probe.arg = "!foo" /\ probe.event.TypeName = "barfoo") => probe.out
        /\ (probe.arg = "foo" /\ probe.event.TypeName = "foobar") => probe.out
        /\ (probe.arg = "foo" /\ probe.event.TypeName = "barfoo") => ~probe.out


---------------------------------------------------------------------------
(* The life cycle of the bus: registrations, Sends of an event that two   *)
(* handlers take and one refuses, Sends of nil, ClearRegistrations and     *)
(* Reset                                                                   *)

LifeSubscriptions ==
    { <<"suzy", TestEventType, "empty">>,
      <<"suzy", TestEventType, "expectReg2">>,
      <<"*", DeadLetterEventType, "deadLetterSink">>,
      <<"*", NilEvent, "empty">> }

NextLife ==
    \/ \E r \in LifeSubscriptions :
          /\ ~Subscribed(r)
          /\ Register(r[1], r[2], r[3])
    \/ \E event \in {Reg1Event, NoEvent} : Send(event)
    \/ SendStep
    \/ ClearRegistrations
    \/ Reset

SpecLife == Init /\ [][NextLife]_vars

\* C12: Send(nil) is a no-op: the step invokes no handler, sends no
\* dead-letter event (no Send call is started) and leaves the registration
\* table and Sent() as they are; nothing happens after it either, until the
\* application makes its next call.
C12_SendNilNoOp ==
    [][last' = "Send(nil)" =>
          UNCHANGED <<handlers, sent, stack, panicked, registered, invoked,
                      deliveries, deadLetters, succ, regex, callers, appState,
                      threads, chains>>]_vars

\* Send(nil) has been called on a bus with registrations, after a Send of
\* an event that was delivered
C12_Witness ==
    /\ last = "Send(nil)"
    /\ DOMAIN handlers # {}
    /\ sent > 0
    /\ deliveries # {}


\* C13: after Reset(), whatever Register and Send calls came before,
\* Registrations() is empty and Sent() is 0; the table of the bus holds only
\* handlers registered since the last Reset, and a Send invokes only
\* handlers registered with the bus it runs on, never one registered before
\* the Reset.
C13_ResetFresh ==
    /\ last = "Reset" => Registrations = {} /\ AllHandlers = <<>> /\ sent = 0
    /\ \A j \in DOMAIN AllHandlers : AllHandlers[j].gen = resets
    /\ \A d \in deliveries : d.handler.gen = d.bus

\* Reset has been called on a bus whose handlers a Send had invoked with
\* success
C13_Witness ==
    /\ last = "Reset"
    /\ \E d \in deliveries : d.err = nilErr /\ d.bus < resets

\* after a Reset, handlers have been registered again and invoked by a Send
C13_WitnessSendAfter ==
    /\ resets > 0
    /\ Returned
    /\ \E d \in deliveries : d.bus = resets


\* C14: ClearRegistrations() leaves the registration table empty and
\* Sent() exactly as it was before the call.
C14_ClearKeepsSent ==
    [][last' = "ClearRegistrations" =>
          /\ DOMAIN handlers' = {}
          /\ sent' = sent]_vars

\* ClearRegistrations has been called on a bus with a positive Sent(),
\* whose handlers a Send had invoked
C14_Witness ==
    /\ last = "ClearRegistrations"
    /\ sent > 0
    /\ \E d \in deliveries : d.err = nilErr /\ d.bus = resets


---------------------------------------------------------------------------
(* What Sent() counts *)

\* the events of the last top-level Send (dead-letter events included) that
\* at least one handler handled without error
Delivered == {d.event : d \in {x \in deliveries : x.err = nilErr}}

\* C15 as claimed: Sent() counts the events delivered to at least one
\* handler, each event (original or dead-letter) contributing exactly 1
\* however many handlers handled it.
C15_OnePerEvent ==
    (sends >= 1 /\ Returned) => sent = sentBefore + Cardinality(Delivered)

\* C15 amended: Sent() counts handler invocations, not events: b.sent++ is
\* executed by every handler call that returns no error, so one event that
\* two handlers handled can raise Sent() by 2. The increments are not
\* synchronised and can be lost (C7): over a Send, Sent() grows by at most
\* the number of handler calls that returned no error, and by at least one
\* if there was such a call.
C15_OnePerHandlerCall ==
    /\ sends >= 1 => sent <= sentBefore + succ
    /\ (sends >= 1 /\ Returned /\ succ > 0) => sent > sentBefore

\* one event has been handled without error by two handlers, the Send has
\* returned and Sent() has grown by 2
C15_Witness ==
    /\ sends >= 1
    /\ Returned
    /\ Delivered = {sending}
    /\ Cardinality({d \in deliveries : d.err = nilErr}) = 2
    /\ succ = 2
    /\ sent = sentBefore + 2


---------------------------------------------------------------------------
(* DefaultEvent.Get *)

\* C16: Get(key) never fails: for a key that is absent from the data of the
\* event (a nil map included) the result is the sentinel "???", for a
\* present key it is the stored value.
C16_GetSentinel ==
    probe.op = "Get" =>
        IF probe.arg \in DOMAIN probe.event.DataMap
        THEN probe.out = probe.event.DataMap[probe.arg]
        ELSE probe.out = "???"

\* Get has been called with an absent key on an event whose data is nil
C16_Witness ==
    /\ probe.op = "Get"
    /\ probe.event.DataMap = NilMap
    /\ probe.arg = "domain"
    /\ probe.out = "???"

\* Get has been called with a present key whose value is the empty string
C16_WitnessPresent ==
    /\ probe.op = "Get"
    /\ probe.arg = "event"
    /\ "event" \in DOMAIN probe.event.DataMap
    /\ probe.out = ""


---------------------------------------------------------------------------
(* The fan-out of one Send call *)

\* the Send call of the frame f is through with the registration n
Finished(f, n) ==
    /\ n \notin f.pending
    /\ \/ n # f.registration
       \/ f.pc \notin {"make", "append", "fanout", "wait"}
       \/ f.pc = "wait" /\ AllDone(f)

\* C17: in one Send call of an event e no handler is invoked twice, and
\* once the call is through with a registration that is applicable to e,
\* every handler of that registration has been invoked, with e, exactly
\* once, whether or not handlers of the same or of an earlier registration
\* returned an error.
C17_EveryHandlerOnce ==
    \A j \in 1..Depth :
        /\ \A id \in DOMAIN stack[j].calls : stack[j].calls[id] = 1
        /\ \A n \in DOMAIN handlers :
              (Finished(stack[j], n) /\ Applies(handlers[n], stack[j].event)) =>
                 \A k \in DOMAIN handlers[n].handlers :
                    /\ handlers[n].handlers[k].id \in DOMAIN stack[j].calls
                    /\ \E d \in deliveries :
                          /\ d.name = n
                          /\ d.handler = handlers[n].handlers[k]
                          /\ d.event = stack[j].event

\* a top-level Send is through with every registration: in one of them a
\* handler failed and a sibling succeeded, the dead-letter Send has
\* returned, and the handler of another registration was invoked too
C17_Witness ==
    /\ Depth = 1
    /\ ~panicked
    /\ Top.pc = "range"
    /\ Top.pending = {}
    /\ \E d1, d2, d3 \in deliveries :
          /\ d1.event = sending /\ d2.event = sending /\ d3.event = sending
          /\ d1.name = d2.name /\ d1.err # nilErr /\ d2.err = nilErr
          /\ d3.name # d1.name
    /\ \E l \in FailureLetters : l.of = sending


---------------------------------------------------------------------------
(* The dead-letter Send of a registration *)

\* the dead-letter Sends that the Send call at depth j made for the
\* registration n because a handler failed
LettersOf(j, n) ==
    {l \in FailureLetters :
        l.depth = j /\ l.name = n /\ l.of = stack[j].event}

\* the handler invocations of the registration n with the event of the
\* Send call at depth j that returned an error
FailedIn(j, n) ==
    {d \in deliveries :
        d.name = n /\ d.event = stack[j].event /\ d.err # nilErr}

\* the Send call at depth j has gone past the wait of the registration n
Past(j, n) ==
    /\ n \notin stack[j].pending
    /\ \/ n # stack[j].registration
       \/ stack[j].pc \notin {"make", "append", "fanout", "wait"}

\* C18: a Send call starts a dead-letter Send from the wait of a
\* registration only when every handler of the registration has returned,
\* and then with the error of the handler that was the first to return one;
\* while the handlers run none has been made, and once the call has gone
\* past an applicable registration it has made exactly one if at least one
\* handler failed (however many did) and none if all succeeded.
C18_OneDeadLetterPerRegistration ==
    /\ [][(Running /\ Top.pc = "wait" /\ Len(stack') = Depth + 1) =>
             /\ AllDone(Top)
             /\ Top.first # 0
             /\ stack'[Depth + 1].event.type = DeadLetterEventType
             /\ stack'[Depth + 1].event.Msg = Top.g[Top.first].err
             /\ stack'[Depth + 1].event.DataMap["event"] = Top.event
         ]_vars
    /\ [](\A j \in 1..Depth : \A n \in DOMAIN handlers :
             /\ (Past(j, n) /\ Applies(handlers[n], stack[j].event)) =>
                   Cardinality(LettersOf(j, n)) =
                      IF FailedIn(j, n) = {} THEN 0 ELSE 1
             /\ ~Past(j, n) => LettersOf(j, n) = {})

\* two handlers of a registration failed with different errors, another
\* succeeded, and the one dead-letter Send of the registration is running
C18_Witness ==
    /\ Depth >= 2
    /\ ~panicked
    /\ \E l \in FailureLetters :
          /\ Cardinality(l.errs) = 2
          /\ l.ok >= 1
          /\ LettersOf(1, l.name) = {l}
          /\ Cardinality(FailedIn(1, l.name)) = 2


---------------------------------------------------------------------------
(* The missed-handler list when several handlers fail *)

\* the positions, in the handler list of d's registration, of the handlers
\* that returned an error for d's event
FailedPositions(d) ==
    {k \in DOMAIN d.handlers : \E x \in Failed(d) : x.handler = d.handlers[k]}

\* the smallest of them
FirstFailed(d) ==
    CHOOSE k \in FailedPositions(d) : \A m \in FailedPositions(d) : k <= m

\* the elements of the missed-handler list of d
Missed(d) ==
    {d.dl.DataMap["handlers"].elems[m] :
        m \in DOMAIN d.dl.DataMap["handlers"].elems}

\* C19: the missed-handler list of a dead-letter event is the suffix of the
\* handler list of the registration, in list order, that starts at the
\* first (lowest) position of a handler that failed, under every completion
\* order of the handlers.
C19_SuffixFromFirstFailed ==
    \A d \in FailureLetters :
        d.dl.DataMap["handlers"].elems =
            SubSeq(d.handlers, FirstFailed(d), Len(d.handlers))

\* C20: the missed-handler list of a dead-letter event holds every handler
\* of the registration that returned an error for the event, for any number
\* of failing handlers and any completion order.
C20_SupersetOfFailed ==
    \A d \in FailureLetters :
        \A x \in Failed(d) : x.handler \in Missed(d)


---------------------------------------------------------------------------
(* Registrations are taken one after another *)

\* the goroutines of the Send call f that have been started and have not
\* returned
InFlight(f) == {k \in DOMAIN f.g : f.g[k].pc # "done"}

\* C21: at every moment the handler invocations in flight belong to one
\* registration of one Send call and receive the event of that call: a Send
\* call that waits for a recursive dead-letter Send has none in flight and
\* starts the handlers of its next registration only when that Send has
\* returned, and the goroutines in flight in the running call are those of
\* the handlers of the registration it is at.
C21_OneRegistrationAtATime ==
    /\ [](\A j \in 1..Depth :
            /\ j < Depth => InFlight(stack[j]) = {} /\ stack[j].pc # "wait"
            /\ InFlight(stack[j]) # {} =>
                  /\ stack[j].pc = "wait"
                  /\ stack[j].registration \in DOMAIN handlers
                  /\ stack[j].registration \notin stack[j].pending
                  /\ DOMAIN stack[j].g =
                        DOMAIN handlers[stack[j].registration].handlers)
    /\ [][(Running /\ Len(stack') = Depth /\ stack'[Depth].calls # Top.calls) =>
             \E d \in deliveries' :
                /\ d.event = Top.event
                /\ d.name = Top.registration
                /\ d.handler.id \in DOMAIN stack'[Depth].calls
                /\ d.handler.id \notin DOMAIN Top.calls
         ]_vars

\* a handler of a registration failed; the handlers of the dead-letter Send
\* are running while a registration applicable to the first event is still
\* to come
C21_Witness ==
    /\ Depth = 2
    /\ ~panicked
    /\ stack[1].pc = "range"
    /\ \E n \in stack[1].pending : Applies(handlers[n], stack[1].event)
    /\ Top.pc = "wait"
    /\ InFlight(Top) # {}


---------------------------------------------------------------------------
(* The dead-letter recursion *)

\* a dead-letter event, as far as the table looks at it
DeadLetterProbe ==
    NewDeadLetterEvent(NoEvent, "", NilSlice)

\* the registered handlers that a dead-letter event is delivered to and
\* that return no error for it
DeadLetterTakers ==
    {AllHandlers[j] : j \in
        {i \in DOMAIN AllHandlers :
            /\ \E n \in DOMAIN handlers :
                  /\ Applies(handlers[n], DeadLetterProbe)
                  /\ \E k \in DOMAIN handlers[n].handlers :
                        handlers[n].handlers[k] = AllHandlers[i]
            /\ Call(AllHandlers[i], DeadLetterProbe) = nilErr}}

\* C22 as claimed: with no registrations, and likewise whenever fewer than
\* two handlers can take a dead-letter event with success, a Send of a
\* non-nil event never returns.
C22_NeverReturns ==
    (sends >= 1 /\ Cardinality(DeadLetterTakers) < 2) => stack # <<>>

\* C22 amended: with no registrations a Send of a non-nil event never
\* returns; whenever fewer than two handlers can take a dead-letter event
\* with success, a Send that has sent a dead-letter event never returns.
\* Every Send call of a dead-letter event then ends with fewer than 2
\* successes, so it sends a further dead-letter event (C3) and the depth
\* grows by one each time.
C22_DeadLetterNeverReturns ==
    /\ (sends >= 1 /\ DOMAIN handlers = {}) => stack # <<>>
    /\ (sends >= 1 /\ Cardinality(DeadLetterTakers) < 2 /\ deadLetters # {}) =>
          /\ stack # <<>>
          /\ \A j \in 1..Depth :
                stack[j].event.type = DeadLetterEventType =>
                   stack[j].ok < 2 /\ stack[j].sentCnt < 2

\* with no registrations the Send calls of the chain are nested as deep as
\* the model follows them
C22_Witness ==
    /\ DOMAIN handlers = {}
    /\ Depth = MaxDepth
    /\ \A j \in 2..Depth : stack[j].event = ShortfallEvent(stack[j - 1].event)
    /\ \A j \in 1..(Depth - 1) : stack[j].pc = "return"


---------------------------------------------------------------------------
(* Who writes the registration table *)

\* C23: no step of a Send, from the call to the return, changes the
\* registration table: the entries, and the filter, prototype and handler
\* list of each, stay as they are, also when handlers fail and the
\* missed-handler list is sliced; a step that changes the table is a call
\* of Register, ClearRegistrations or Reset.
C23_SendKeepsTable ==
    /\ [][(Running \/ stack' # <<>>) => handlers' = handlers]_vars
    /\ [][handlers' # handlers =>
             /\ Idle
             /\ last' \in {"Register", "ClearRegistrations", "Reset"}]_vars

\* a Send in which a handler failed has returned: the missed-handler list
\* of the dead-letter event is shorter than the handler list of the
\* registration, which is as it was
C23_Witness ==
    /\ Returned
    /\ last = "Send"
    /\ \E l \in FailureLetters :
          /\ l.name \in DOMAIN handlers
          /\ Len(l.missed.elems) < Len(l.handlers)
          /\ handlers[l.name].handlers = l.handlers


---------------------------------------------------------------------------
(* Register called by another goroutine while a Send is running.  The map *)
(* is written while it is iterated without synchronisation: the runtime    *)
(* may stop the process (concurrent map iteration and map write), or the   *)
(* iterations in progress produce the new entry or skip it.  A handler     *)
(* appended to an existing entry is seen by those of the three reads of    *)
(* registration.handlers (lines 148, 149, 150) that come after the write;  *)
(* a write of the slice header that overlaps one of the reads can hand the *)
(* Send a torn header: the old or the new list, or the new length with the *)
(* old array, which reads past the array and can stop the process.         *)

\* a Send call is at its reads of the handler list of the entry name
Reading(name) ==
    \E j \in 1..Depth :
        /\ stack[j].registration = name
        /\ stack[j].pc \in {"make", "append", "fanout"}

RegisterDuringSend_Locked(filter, event, kind, seen, crash) ==
    /\ Idle
    /\ Register(filter, event, kind)

\* line 123-134 with no lock taken; seen: the Send calls whose iteration
\* produces the new entry, crash: the runtime detects the concurrent write
RegisterDuringSend(filter, event, kind, seen, crash) ==
    LET h == Handler(filter, event, kind)
        name == uniqueName([filter |-> filter, event |-> event])
        pair == <<filter, event>>
        fresh == name \notin DOMAIN handlers
    IN
    /\ Running
    /\ seen \subseteq 1..Depth
    /\ ~fresh => seen = {} /\ (crash => Reading(name))
    /\ ids' = ids + 1
    /\ last' = "Register"
    /\ handlers' = RegisterHandler(handlers, NewRegistration(filter, event, h))
    /\ registered' =
          [q \in DOMAIN registered \cup {pair} |->
             IF q = pair
             THEN (IF q \in DOMAIN registered THEN registered[q] ELSE <<>>) \o <<h>>
             ELSE registered[q]]
    /\ invoked' = [id \in DOMAIN invoked \cup {h.id} |->
                      IF id \in DOMAIN invoked THEN invoked[id] ELSE 0]
    /\ panicked' = crash
    /\ stack' = [j \in 1..Depth |->
                    IF j \in seen
                    THEN [stack[j] EXCEPT !.pending = @ \cup {name}]
                    ELSE stack[j]]
    /\ UNCHANGED <<sent, sends, sending, succ, sentBefore, deliveries,
                   deadLetters, resets, probe, regex, callers, appState,
                   threads, chains>>

RaceSubscriptions ==
    { <<"suzy", TestEventType, "empty">>,
      <<"suzy", TestEventType, "expectReg1">>,
      <<"suzy", TestEventType, "expectReg2">>,
      <<"*", NilEvent, "empty">> }

NextRace ==
    \/ \E r \in RaceSubscriptions :
          /\ ~Subscribed(r)
          /\ Register(r[1], r[2], r[3])
    \/ Send(Reg1Event)
    \/ SendStep
    \/ \E r \in RaceSubscriptions, crash \in BOOLEAN :
          \E seen \in SUBSET (1..Depth) :
             /\ ~Subscribed(r)
             /\ RegisterDuringSend(r[1], r[2], r[3], seen, crash)

SpecRace == Init /\ [][NextRace]_vars

\* a Send call is part-way through its iteration of the table
Iterating ==
    /\ Running
    /\ \E j \in 1..Depth :
          \/ stack[j].pending # {}
          \/ stack[j].pc \in {"make", "append", "fanout", "wait"}

\* C24: no lock protects the registration table: whenever a Send is
\* part-way through iterating the table, a Register call of another
\* goroutine can run and write the table.
C24_NoLock ==
    Iterating =>
        ENABLED RegisterDuringSend("suzy", TestEventType, "empty", {}, FALSE)

\* Register has written the table while a Send is part-way through its
\* iteration
C24_Witness ==
    /\ Iterating
    /\ ~panicked
    /\ last = "Register"
    /\ Top.pending # {}


---------------------------------------------------------------------------
(* Two dead-letter subscribers under one registration; every goroutine    *)
(* that can take a step eventually takes one (every handler returns), and *)
(* a chain of nested Send calls is followed to the end of the stack       *)

SinkSubscriptions ==
    { <<"*", DeadLetterEventType, "deadLetterSink">>,
      <<"*", DeadLetterEventType, "empty">>,
      <<"suzy", TestEventType, "empty">>,
      <<"suzy", TestEventType, "expectReg2">> }

NextSinks ==
    \/ \E r \in SinkSubscriptions :
          /\ ~Subscribed(r)
          /\ Register(r[1], r[2], r[3])
    \/ Send(Reg1Event)
    \/ SendStep
    \/ StackOverflow

SpecSinks ==
    Init /\ [][NextSinks]_vars /\ WF_vars(SendStep) /\ WF_vars(StackOverflow)

\* the registered handlers that a dead-letter event is delivered to and
\* that return an error for it
DeadLetterRefusers ==
    {AllHandlers[j] : j \in
        {i \in DOMAIN AllHandlers :
            /\ \E n \in DOMAIN handlers :
                  /\ Applies(handlers[n], DeadLetterProbe)
                  /\ \E k \in DOMAIN handlers[n].handlers :
                        handlers[n].handlers[k] = AllHandlers[i]
            /\ Call(AllHandlers[i], DeadLetterProbe) # nilErr}}

---------------------------------------------------------------------------
(* The success counter of a Send under concurrent handlers *)

\* the registered handlers that the event is delivered to
ApplicableTo(event) ==
    {AllHandlers[j] : j \in
        {i \in DOMAIN AllHandlers :
            \E n \in DOMAIN handlers :
               /\ Applies(handlers[n], event)
               /\ \E k \in DOMAIN handlers[n].handlers :
                     handlers[n].handlers[k] = AllHandlers[i]}}

\* C26: if at least two handlers are applicable to the event sent and all
\* of them return no error, the Send sends no dead-letter event for that
\* event, neither for a failure nor for a shortfall, under every
\* interleaving of the handlers.
C26_NoDeadLetterForTwo ==
    (/\ stack # <<>>
     /\ Cardinality(ApplicableTo(sending)) >= 2
     /\ \A h \in ApplicableTo(sending) : Call(h, sending) = nilErr)
        => \A l \in deadLetters : l.of # sending


\* the (filter, prototype) pairs whose Register calls put a handler into the
\* table entry named n
PairsIn(n) ==
    {q \in DOMAIN registered :
        \E k \in DOMAIN registered[q], i \in DOMAIN handlers[n].handlers :
            registered[q][k] = handlers[n].handlers[i]}

\* C27: registration identity is injective: no table entry holds handlers
\* of two different (filter, prototype type) pairs, and every handler is
\* held under the filter and the prototype it was registered with, also
\* when a filter registered with a nil prototype ends in "-" and a type name.
C27_IdentityInjective ==
    \A n \in DOMAIN handlers :
        /\ Cardinality(PairsIn(n)) <= 1
        /\ \A q \in PairsIn(n) :
              handlers[n].filter = q[1] /\ handlers[n].event = q[2]


---------------------------------------------------------------------------
(* Regex: IsValid, Init and Matches called from concurrent goroutines *)

Patterns == {"a", "(a)", "a(", ")"}
Targets == {"a", "ba", "b", ""}

SetCaller(g, pc, op, target, ret) ==
    callers' = [callers EXCEPT ![g] =
                   [pc |-> pc, op |-> op, target |-> target, ret |-> ret]]

\* where a call that ran Init goes on: Matches to its MatchString, a plain
\* Init back to its caller
AfterInit(g) ==
    IF callers[g].op = "Matches"
    THEN SetCaller(g, "Matches.MatchString", "Matches", callers[g].target, "")
    ELSE SetCaller(g, "idle", "Init", "", "")

\* IsValid, lines 228-230: the call and the check made before locking
IsValid(g) ==
    /\ ~panicked
    /\ callers[g].pc = "idle"
    /\ IF regex.Regex # NilRegexp
       THEN SetCaller(g, "idle", "IsValid", "", "true")
       ELSE SetCaller(g, "IsValid.Lock", "IsValid", "", "")
    /\ UNCHANGED <<handlers, sent, stack, panicked, ids, registered, sends,
                   sending, succ, sentBefore, invoked, deliveries,
                   deadLetters, last, resets, probe, regex, appState, threads,
                   chains>>

\* line 231
IsValidLock(g) ==
    /\ ~panicked
    /\ callers[g].pc = "IsValid.Lock"
    /\ ~regex.lock
    /\ regex' = [regex EXCEPT !.lock = TRUE]
    /\ SetCaller(g, "IsValid.Compile", "IsValid", "", "")
    /\ UNCHANGED <<handlers, sent, stack, panicked, ids, registered, sends,
                   sending, succ, sentBefore, invoked, deliveries,
                   deadLetters, last, resets, probe, appState, threads,
                   chains>>

\* lines 232-237: compile, and return false on an error
IsValidCompile(g) ==
    /\ ~panicked
    /\ callers[g].pc = "IsValid.Compile"
    /\ regex' = [regex EXCEPT !.Regex = Compile(regex.Pattern).Regex]
    /\ IF Compile(regex.Pattern).err # NoParseError
       THEN SetCaller(g, "idle", "IsValid", "", "false")
       ELSE SetCaller(g, "IsValid.Unlock", "IsValid", "", "")
    /\ UNCHANGED <<handlers, sent, stack, panicked, ids, registered, sends,
                   sending, succ, sentBefore, invoked, deliveries,
                   deadLetters, last, resets, probe, appState, threads,
                   chains>>

\* lines 238-239
IsValidUnlock(g) ==
    /\ ~panicked
    /\ callers[g].pc = "IsValid.Unlock"
    /\ regex' = [regex EXCEPT !.lock = FALSE]
    /\ SetCaller(g, "idle", "IsValid", "", "true")
    /\ UNCHANGED <<handlers, sent, stack, panicked, ids, registered, sends,
                   sending, succ, sentBefore, invoked, deliveries,
                   deadLetters, last, resets, probe, appState, threads,
                   chains>>

\* Init, lines 244-246, entered from the application (op "Init") or from
\* Matches, line 257 (op "Matches")
EnterInit(g, op, target) ==
    /\ ~panicked
    /\ callers[g].pc = "idle"
    /\ IF regex.Regex # NilRegexp
       THEN IF op = "Matches"
            THEN SetCaller(g, "Matches.MatchString", "Matches", target, "")
            ELSE SetCaller(g, "idle", "Init", "", "")
       ELSE SetCaller(g, "Init.Lock", op, target, "")
    /\ UNCHANGED <<handlers, sent, stack, panicked, ids, registered, sends,
                   sending, succ, sentBefore, invoked, deliveries,
                   deadLetters, last, resets, probe, regex, appState, threads,
                   chains>>

RegexInit(g) == EnterInit(g, "Init", "")

RegexMatches(g, target) == EnterInit(g, "Matches", target)

\* line 248
InitLock(g) ==
    /\ ~panicked
    /\ callers[g].pc = "Init.Lock"
    /\ ~regex.lock
    /\ regex' = [regex EXCEPT !.lock = TRUE]
    /\ SetCaller(g, "Init.MustCompile", callers[g].op, callers[g].target, "")
    /\ UNCHANGED <<handlers, sent, stack, panicked, ids, registered, sends,
                   sending, succ, sentBefore, invoked, deliveries,
                   deadLetters, last, resets, probe, appState, threads,
                   chains>>

\* line 250: MustCompile panics on a pattern that does not compile, before
\* anything is assigned
InitMustCompile(g) ==
    /\ ~panicked
    /\ callers[g].pc = "Init.MustCompile"
    /\ IF Compile(regex.Pattern).err # NoParseError
       THEN /\ panicked' = TRUE
            /\ SetCaller(g, "panic", callers[g].op, callers[g].target, "")
            /\ UNCHANGED regex
       ELSE /\ regex' = [regex EXCEPT !.Regex = Compile(regex.Pattern).Regex]
            /\ SetCaller(g, "Init.Unlock", callers[g].op, callers[g].target, "")
            /\ UNCHANGED panicked
    /\ UNCHANGED <<handlers, sent, stack, ids, registered, sends, sending,
                   succ, sentBefore, invoked, deliveries, deadLetters, last,
                   resets, probe, appState, threads, chains>>

\* line 252, and the return to the caller
InitUnlock(g) ==
    /\ ~panicked
    /\ callers[g].pc = "Init.Unlock"
    /\ regex' = [regex EXCEPT !.lock = FALSE]
    /\ AfterInit(g)
    /\ UNCHANGED <<handlers, sent, stack, panicked, ids, registered, sends,
                   sending, succ, sentBefore, invoked, deliveries,
                   deadLetters, last, resets, probe, appState, threads,
                   chains>>

\* Matches, line 258: a nil r.Regex is a nil pointer dereference
MatchesMatchString(g) ==
    /\ ~panicked
    /\ callers[g].pc = "Matches.MatchString"
    /\ IF regex.Regex = NilRegexp
       THEN /\ panicked' = TRUE
            /\ SetCaller(g, "panic", "Matches", callers[g].target, "")
       ELSE /\ UNCHANGED panicked
            /\ SetCaller(g, "idle", "Matches", callers[g].target,
                  IF MatchString(regex.Regex, callers[g].target)
                  THEN "true" ELSE "false")
    /\ UNCHANGED <<handlers, sent, stack, ids, registered, sends, sending,
                   succ, sentBefore, invoked, deliveries, deadLetters, last,
                   resets, probe, regex, appState, threads, chains>>

InitRegex ==
    /\ handlers = newBus.handlers
    /\ sent = newBus.sent
    /\ stack = <<>>
    /\ panicked = FALSE
    /\ ids = 0
    /\ registered = [q \in {} |-> <<>>]
    /\ sends = 0
    /\ sending = NoEvent
    /\ succ = 0
    /\ sentBefore = 0
    /\ invoked = [h \in {} |-> 0]
    /\ deliveries = {}
    /\ deadLetters = {}
    /\ last = ""
    /\ resets = 0
    /\ probe = NoProbe
    /\ \E pattern \in Patterns : regex = NewRegex(pattern)
    /\ callers = [g \in Goroutines |-> NoCaller]
    /\ appState = NewState
    /\ threads = [g \in Threads |-> NoThread]
    /\ chains = NoChains

NextRegex ==
    \E g \in Goroutines :
        \/ IsValid(g)
        \/ IsValidLock(g)
        \/ IsValidCompile(g)
        \/ IsValidUnlock(g)
        \/ RegexInit(g)
        \/ \E target \in Targets : RegexMatches(g, target)
        \/ InitLock(g)
        \/ InitMustCompile(g)
        \/ InitUnlock(g)
        \/ MatchesMatchString(g)

SpecRegex == InitRegex /\ [][NextRegex]_vars

\* the goroutines between the Lock and the Unlock of a call on the Regex
Locking ==
    {g \in Goroutines :
        callers[g].pc \in {"IsValid.Compile", "IsValid.Unlock",
                           "Init.MustCompile", "Init.Unlock"}}

\* C28: IsValid releases the Regex's mutex on every return path: while the
\* process runs, the lock is held only by a call that is between its Lock
\* and its Unlock, so a call waiting for the lock is never left waiting for
\* a call that has already returned.
C28_LockReleasedOnReturn ==
    (~panicked /\ regex.lock) => Locking # {}


---------------------------------------------------------------------------
(* State: the application state and its error flag *)

Errors == {NoError, "boom"}
\* names: one of white space only (\t, U+000B, U+00A0, U+2003), and "app"
AppNames == { <<9, 11, 160, 8195>>, <<97, 112, 112>> }
\* ".cfg"
ConfigFileNames == { <<46, 99, 102, 103>> }

\* State.Errored, lines 184-186
Errored(s) == s.errored

\* State.SetState, lines 125-137
SetState(newState) ==
    /\ ~panicked
    /\ appState' =
          [appState EXCEPT
              !.state = newState,
              !.errored = IF newState = AppErrored THEN TRUE ELSE @,
              !.stopTime = IF newState = AppStopped THEN "now" ELSE @]
    /\ UNCHANGED <<handlers, sent, stack, panicked, ids, registered, sends,
                   sending, succ, sentBefore, invoked, deliveries,
                   deadLetters, last, resets, probe, regex, callers, threads,
                   chains>>

ErrorEventType ==
    PtrTo("github.com/jonathannewell/golang-utils", "golang_utils", "ErrorEvent")

\* fmt.Sprintf for a format whose only verb is %s. An argument is its type
\* and the text that %s and %v write for it. A %s without an argument is
\* reported in its place, and the arguments that no verb takes are all
\* reported after the text, separated by ", ".
Sprintf(format, args) ==
    LET RECURSIVE Extra(_)
        RECURSIVE Format(_, _)
        Extra(a) ==
            IF Len(a) = 1 THEN a[1].type \o "=" \o a[1].value
            ELSE a[1].type \o "=" \o a[1].value \o ", " \o Extra(Tail(a))
        Format(f, a) ==
            IF Len(f) = 0
            THEN IF Len(a) = 0 THEN "" ELSE "%!(EXTRA " \o Extra(a) \o ")"
            ELSE IF HasPrefix(f, "%s")
                 THEN IF Len(a) = 0
                      THEN "%!s(MISSING)" \o Format(SubSeq(f, 3, Len(f)), a)
                      ELSE a[1].value \o Format(SubSeq(f, 3, Len(f)), Tail(a))
                 ELSE SubSeq(f, 1, 1) \o Format(SubSeq(f, 2, Len(f)), a)
    IN  Format(format, args)

\* NewErrorEvent, event.go lines 254-263
NewErrorEvent(source, err, fmtMsg, args) ==
    [type |-> ErrorEventType, TypeName |-> "error",
     Msg |-> Sprintf(fmtMsg, args), DataMap |-> NilMap, Dmn |-> source,
     Err |-> err]

\* State.CheckError passes its variadic args to the util CheckError as one
\* argument, a slice (line 201): with no arguments given, an empty one
PassedArgs == << [type |-> "[]interface {}", value |-> "[]"] >>

Messages == {"msg"}

\* State.CheckError, lines 197-206. With a nil error nothing happens.
\* Otherwise the state is set (line 199), and the call goes on to the util
\* CheckError (line 201) or to LogError (line 203).
CheckError(g, terminate, err, msg) ==
    /\ ~panicked
    /\ threads[g].pc = "idle"
    /\ IF err = NoError
       THEN UNCHANGED <<appState, threads, chains>>
       ELSE /\ appState' = [appState EXCEPT !.state = AppErrored]
            /\ threads' = [threads EXCEPT ![g] =
                  [NoThread EXCEPT
                      !.pc = IF terminate THEN "CheckError.log"
                             ELSE "LogError.log",
                      !.via = "State.CheckError",
                      !.err = err, !.msg = msg, !.args = PassedArgs]]
    /\ UNCHANGED <<handlers, sent, stack, panicked, ids, registered, sends,
                   sending, succ, sentBefore, invoked, deliveries,
                   deadLetters, last, resets, probe, regex, callers, chains>>

\* LogError, errors.go lines 39-43, called at line 203 of State.CheckError:
\* the error is written to the log, and the call returns
LogError(g) ==
    /\ ~panicked
    /\ threads[g].pc = "LogError.log"
    /\ threads' = [threads EXCEPT ![g] = NoThread]
    /\ UNCHANGED <<handlers, sent, stack, panicked, ids, registered, sends,
                   sending, succ, sentBefore, invoked, deliveries,
                   deadLetters, last, resets, probe, regex, callers, appState,
                   chains>>

\* the util CheckError called by the application, errors.go lines 51-52:
\* with a nil error it returns
UtilCheckError(g, err, msg, args) ==
    /\ ~panicked
    /\ threads[g].pc = "idle"
    /\ IF err = NoError
       THEN UNCHANGED threads
       ELSE threads' = [threads EXCEPT ![g] =
               [NoThread EXCEPT !.pc = "CheckError.log", !.via = "CheckError",
                                !.err = err, !.msg = msg, !.args = args]]
    /\ UNCHANGED <<handlers, sent, stack, panicked, ids, registered, sends,
                   sending, succ, sentBefore, invoked, deliveries,
                   deadLetters, last, resets, probe, regex, callers, appState,
                   chains>>

\* the util CheckError, errors.go lines 53-54: the error is written to the
\* log, and SendErrorEvent is called with the source "util.CheckError"
CheckErrorLog(g) ==
    /\ ~panicked
    /\ threads[g].pc = "CheckError.log"
    /\ threads' = [threads EXCEPT ![g].pc = "SendErrorEvent",
                                  ![g].source = "util.CheckError"]
    /\ UNCHANGED <<handlers, sent, stack, panicked, ids, registered, sends,
                   sending, succ, sentBefore, invoked, deliveries,
                   deadLetters, last, resets, probe, regex, callers, appState,
                   chains>>

\* ThrowError, errors.go lines 58-59: the error is made from the format
ThrowError(g, msg, args) ==
    /\ ~panicked
    /\ threads[g].pc = "idle"
    /\ threads' = [threads EXCEPT ![g] =
          [NoThread EXCEPT !.pc = "ThrowError.log", !.via = "ThrowError",
                           !.err = Sprintf(msg, args)]]
    /\ UNCHANGED <<handlers, sent, stack, panicked, ids, registered, sends,
                   sending, succ, sentBefore, invoked, deliveries,
                   deadLetters, last, resets, probe, regex, callers, appState,
                   chains>>

\* ThrowError, errors.go lines 60-61: the error is written to the log, and
\* SendErrorEvent is called
ThrowErrorLog(g) ==
    /\ ~panicked
    /\ threads[g].pc = "ThrowError.log"
    /\ threads' = [threads EXCEPT
          ![g].pc = "SendErrorEvent",
          ![g].source = "util.ThrowError",
          ![g].msg = "Programmatically Thrown Error",
          ![g].args = <<>>]
    /\ UNCHANGED <<handlers, sent, stack, panicked, ids, registered, sends,
                   sending, succ, sentBefore, invoked, deliveries,
                   deadLetters, last, resets, probe, regex, callers, appState,
                   chains>>

\* the Send that the variables describe, as a value to park
CurrentChain ==
    IF stack = <<>> THEN NoChain
    ELSE [stack |-> stack, sending |-> sending, succ |-> succ,
          sentBefore |-> sentBefore, invoked |-> invoked,
          deliveries |-> deliveries, deadLetters |-> deadLetters]

\* the Send that goroutine g called has returned
SendReturned(g) ==
    IF chains.cur = g THEN stack = <<>> ELSE chains.parked[g].stack = <<>>

\* goroutine g calls EventBus.Send (line 136) while the Sends of other
\* goroutines may be running: theirs is parked
StartSendBy(g, event) ==
    /\ StartSend(event)
    /\ chains' = [cur |-> g,
                  parked |-> [chains.parked EXCEPT ![chains.cur] = CurrentChain,
                                                   ![g] = NoChain]]

\* the scheduler turns to the Send of goroutine g: the next steps of Send
\* are steps of g's call. The bus, the State and the goroutines stay as
\* they are.
Switch(g) ==
    /\ ~panicked
    /\ g # chains.cur
    /\ chains.parked[g].stack # <<>>
    /\ stack' = chains.parked[g].stack
    /\ sending' = chains.parked[g].sending
    /\ succ' = chains.parked[g].succ
    /\ sentBefore' = chains.parked[g].sentBefore
    /\ invoked' = chains.parked[g].invoked
    /\ deliveries' = chains.parked[g].deliveries
    /\ deadLetters' = chains.parked[g].deadLetters
    /\ chains' = [cur |-> g,
                  parked |-> [chains.parked EXCEPT ![chains.cur] = CurrentChain,
                                                   ![g] = NoChain]]
    /\ UNCHANGED <<handlers, sent, panicked, ids, registered, sends, last,
                   resets, probe, regex, callers, appState, threads>>

\* SendErrorEvent, event.go lines 265-266, called by the application or by
\* CheckError or ThrowError: the error event is sent on the EventBus
SendErrorEvent(g, source, err, msg, args) ==
    /\ ~panicked
    /\ threads[g].pc \in {"idle", "SendErrorEvent"}
    /\ StartSendBy(g, NewErrorEvent(source, err, msg, args))
    /\ last' = "Send"
    /\ threads' = [threads EXCEPT ![g] =
          [NoThread EXCEPT
              !.pc = "SendErrorEvent.Send",
              !.via = IF threads[g].pc = "idle" THEN "SendErrorEvent"
                      ELSE threads[g].via,
              !.source = source, !.err = err, !.msg = msg, !.args = args]]
    /\ UNCHANGED <<handlers, sent, panicked, ids, registered, resets, probe,
                   regex, callers, appState>>

\* SendAppLogEvent, event.go lines 216-218, called by the application, or
\* by SendErrorEvent (line 267) when its Send has returned: the log event
\* is sent on the EventBus
SendAppLogEvent(g, format, args) ==
    /\ ~panicked
    /\ \/ threads[g].pc = "idle"
       \/ threads[g].pc = "SendErrorEvent.Send" /\ SendReturned(g)
    /\ StartSendBy(g, NewLogEventDetailed("app", Sprintf(format, args)))
    /\ last' = "Send"
    /\ threads' = [threads EXCEPT
          ![g].pc = "SendAppLogEvent.Send",
          ![g].via = IF threads[g].pc = "idle" THEN "SendAppLogEvent" ELSE @]
    /\ UNCHANGED <<handlers, sent, panicked, ids, registered, resets, probe,
                   regex, callers, appState>>

\* the Send of the log event has returned, and with it SendAppLogEvent and
\* the functions that called it; ThrowError then panics with its error
\* (errors.go line 62)
SendAppLogEventReturn(g) ==
    /\ ~panicked
    /\ threads[g].pc = "SendAppLogEvent.Send"
    /\ SendReturned(g)
    /\ IF threads[g].via = "ThrowError"
       THEN /\ panicked' = TRUE
            /\ threads' = [threads EXCEPT ![g].pc = "panic"]
       ELSE /\ UNCHANGED panicked
            /\ threads' = [threads EXCEPT ![g] = NoThread]
    /\ UNCHANGED <<handlers, sent, stack, ids, registered, sends, sending,
                   succ, sentBefore, invoked, deliveries, deadLetters, last,
                   resets, probe, regex, callers, appState, chains>>

\* State.SetAppName, lines 233-236
SetAppName(name) ==
    /\ ~panicked
    /\ appState' = [appState EXCEPT !.appName = name]
    /\ UNCHANGED <<handlers, sent, stack, panicked, ids, registered, sends,
                   sending, succ, sentBefore, invoked, deliveries,
                   deadLetters, last, resets, probe, regex, callers, threads,
                   chains>>

\* State.SetConfigFileName, lines 253-256
SetConfigFileName(name) ==
    /\ ~panicked
    /\ appState' = [appState EXCEPT !.configFileName = name]
    /\ UNCHANGED <<handlers, sent, stack, panicked, ids, registered, sends,
                   sending, succ, sentBefore, invoked, deliveries,
                   deadLetters, last, resets, probe, regex, callers, threads,
                   chains>>

\* State.UseHomeDir, lines 228-231
UseHomeDir(uhd) ==
    /\ ~panicked
    /\ appState' = [appState EXCEPT !.useHomeDir = uhd]
    /\ UNCHANGED <<handlers, sent, stack, panicked, ids, registered, sends,
                   sending, succ, sentBefore, invoked, deliveries,
                   deadLetters, last, resets, probe, regex, callers, threads,
                   chains>>

\* The program of this specification: its goroutines call SetState and the
\* functions that report an error at any time, until MaxSends calls of Send
\* were made. It registers no handler on the EventBus, so of the steps of a
\* Send only the one for a shortfall is ever taken and no Send returns:
\* line 267 of SendErrorEvent and the panic of ThrowError are not reached.
NextState ==
    \/ \E newState \in ApplicationStates : SetState(newState)
    \/ \E g \in Threads, terminate \in BOOLEAN, err \in Errors,
          msg \in Messages :
          /\ sends < MaxSends
          /\ CheckError(g, terminate, err, msg)
    \/ \E g \in Threads : LogError(g)
    \/ \E g \in Threads, err \in Errors, msg \in Messages,
          args \in { <<>>, << [type |-> "int", value |-> "1"],
                              [type |-> "int", value |-> "2"] >> } :
          /\ sends < MaxSends
          /\ UtilCheckError(g, err, msg, args)
    \/ \E g \in Threads : CheckErrorLog(g)
    \/ \E g \in Threads, msg \in Messages :
          sends < MaxSends /\ ThrowError(g, msg, <<>>)
    \/ \E g \in Threads : ThrowErrorLog(g)
    \/ \E g \in Threads, source \in {"app"}, err \in Errors,
          msg \in Messages :
          /\ sends < MaxSends
          /\ threads[g].pc = "idle"
          /\ SendErrorEvent(g, source, err, msg, <<>>)
    \/ \E g \in Threads :
          /\ threads[g].pc = "SendErrorEvent"
          /\ SendErrorEvent(g, threads[g].source, threads[g].err,
                            threads[g].msg, threads[g].args)
    \/ \E g \in Threads, msg \in Messages :
          /\ sends < MaxSends
          /\ threads[g].pc = "idle"
          /\ SendAppLogEvent(g, msg, <<>>)
    \/ \E g \in Threads : Switch(g)
    \/ SendShortfall

SpecState == Init /\ [][NextState]_vars

\* C30: whenever the application state is Errored, Errored() is true, and
\* once Errored() is true it stays true after any later call, whether the
\* Errored state was entered by SetState(Errored) or by CheckError with a
\* non-nil error.
C30_ErroredFlagFollowsState ==
    /\ [](appState.state = AppErrored => Errored(appState))
    /\ [][Errored(appState) => Errored(appState')]_vars


---------------------------------------------------------------------------
(* State: the lazily initialised configuration *)

SetThread(g, pc, via, appName) ==
    threads' = [threads EXCEPT ![g] =
                   [NoThread EXCEPT !.pc = pc, !.via = via,
                                    !.appName = appName]]

Goto(g, pc) == SetThread(g, pc, threads[g].via, threads[g].appName)

\* the call returns to the application
Done(g) == threads' = [threads EXCEPT ![g] = NoThread]

\* sync.Mutex.Unlock of a mutex that is not locked: a fatal error, which
\* ends the process
UnlockOfUnlocked(g) ==
    /\ panicked' = TRUE
    /\ threads' = [threads EXCEPT ![g].pc = "panic"]
    /\ UNCHANGED appState

\* Lock, the method of the embedded sync.Mutex (line 69), called by the
\* application: it returns when the mutex is free, and holds it
Lock(g) ==
    /\ ~panicked
    /\ threads[g].pc = "idle"
    /\ ~appState.Mutex
    /\ appState' = [appState EXCEPT !.Mutex = TRUE]
    /\ Done(g)
    /\ UNCHANGED <<handlers, sent, stack, panicked, ids, registered, sends,
                   sending, succ, sentBefore, invoked, deliveries,
                   deadLetters, last, resets, probe, regex, callers, chains>>

\* Unlock, the method of the embedded sync.Mutex (line 69), called by the
\* application: the mutex is released, whichever goroutine locked it
Unlock(g) ==
    /\ ~panicked
    /\ threads[g].pc = "idle"
    /\ IF appState.Mutex
       THEN /\ appState' = [appState EXCEPT !.Mutex = FALSE]
            /\ Done(g)
            /\ UNCHANGED panicked
       ELSE UnlockOfUnlocked(g)
    /\ UNCHANGED <<handlers, sent, stack, ids, registered, sends, sending,
                   succ, sentBefore, invoked, deliveries, deadLetters, last,
                   resets, probe, regex, callers, chains>>

\* Config, lines 324 and 331: the check made before locking
Config(g) ==
    /\ ~panicked
    /\ threads[g].pc = "idle"
    /\ IF appState.config = NilConfiguration
       THEN SetThread(g, "Config.Lock", "Config", <<>>)
       ELSE Done(g)
    /\ UNCHANGED <<handlers, sent, stack, panicked, ids, registered, sends,
                   sending, succ, sentBefore, invoked, deliveries,
                   deadLetters, last, resets, probe, regex, callers, appState,
                   chains>>

\* line 325
ConfigLock(g) ==
    /\ ~panicked
    /\ threads[g].pc = "Config.Lock"
    /\ ~appState.Mutex
    /\ appState' = [appState EXCEPT !.Mutex = TRUE]
    /\ Goto(g, "Config.Check")
    /\ UNCHANGED <<handlers, sent, stack, panicked, ids, registered, sends,
                   sending, succ, sentBefore, invoked, deliveries,
                   deadLetters, last, resets, probe, regex, callers, chains>>

\* lines 326-328: the second check, and the call of InitConfig
ConfigCheck(g) ==
    /\ ~panicked
    /\ threads[g].pc = "Config.Check"
    /\ IF appState.config = NilConfiguration
       THEN Goto(g, "configFile")
       ELSE Goto(g, "Config.Unlock")
    /\ UNCHANGED <<handlers, sent, stack, panicked, ids, registered, sends,
                   sending, succ, sentBefore, invoked, deliveries,
                   deadLetters, last, resets, probe, regex, callers, appState,
                   chains>>

\* lines 329-331
ConfigUnlock(g) ==
    /\ ~panicked
    /\ threads[g].pc = "Config.Unlock"
    /\ IF appState.Mutex
       THEN /\ appState' = [appState EXCEPT !.Mutex = FALSE]
            /\ Done(g)
            /\ UNCHANGED panicked
       ELSE UnlockOfUnlocked(g)
    /\ UNCHANGED <<handlers, sent, stack, ids, registered, sends, sending,
                   succ, sentBefore, invoked, deliveries, deadLetters, last,
                   resets, probe, regex, callers, chains>>

\* InitConfig called by the application, line 307: its first step is the
\* call of configFile at line 308
InitConfig(g) ==
    /\ ~panicked
    /\ threads[g].pc = "idle"
    /\ SetThread(g, "configFile", "InitConfig", <<>>)
    /\ UNCHANGED <<handlers, sent, stack, panicked, ids, registered, sends,
                   sending, succ, sentBefore, invoked, deliveries,
                   deadLetters, last, resets, probe, regex, callers, appState,
                   chains>>

\* configFile, lines 342 and 351
configFile(g) ==
    /\ ~panicked
    /\ threads[g].pc = "configFile"
    /\ IF IsEmpty(appState.configFileName)
       THEN Goto(g, "applicationName")
       ELSE Goto(g, "InitConfig.New")
    /\ UNCHANGED <<handlers, sent, stack, panicked, ids, registered, sends,
                   sending, succ, sentBefore, invoked, deliveries,
                   deadLetters, last, resets, probe, regex, callers, appState,
                   chains>>

\* applicationName, line 355, called at line 344
applicationName(g) ==
    /\ ~panicked
    /\ threads[g].pc = "applicationName"
    /\ IF IsEmpty(appState.appName)
       THEN Goto(g, "applicationName.Lock")
       ELSE Goto(g, "applicationName.Return")
    /\ UNCHANGED <<handlers, sent, stack, panicked, ids, registered, sends,
                   sending, succ, sentBefore, invoked, deliveries,
                   deadLetters, last, resets, probe, regex, callers, appState,
                   chains>>

\* line 356
applicationNameLock(g) ==
    /\ ~panicked
    /\ threads[g].pc = "applicationName.Lock"
    /\ ~appState.Mutex
    /\ appState' = [appState EXCEPT !.Mutex = TRUE]
    /\ Goto(g, "applicationName.Check")
    /\ UNCHANGED <<handlers, sent, stack, panicked, ids, registered, sends,
                   sending, succ, sentBefore, invoked, deliveries,
                   deadLetters, last, resets, probe, regex, callers, chains>>

\* line 357: the second check, under the lock
applicationNameCheck(g) ==
    /\ ~panicked
    /\ threads[g].pc = "applicationName.Check"
    /\ IF IsEmpty(appState.appName)
       THEN Goto(g, "applicationName.Set")
       ELSE Goto(g, "applicationName.Unlock")
    /\ UNCHANGED <<handlers, sent, stack, panicked, ids, registered, sends,
                   sending, succ, sentBefore, invoked, deliveries,
                   deadLetters, last, resets, probe, regex, callers, appState,
                   chains>>

\* "unknown(???)", line 358
UnknownName == <<117, 110, 107, 110, 111, 119, 110, 40, 63, 63, 63, 41>>

\* line 358
applicationNameSet(g) ==
    /\ ~panicked
    /\ threads[g].pc = "applicationName.Set"
    /\ appState' = [appState EXCEPT !.appName = UnknownName]
    /\ Goto(g, "applicationName.Unlock")
    /\ UNCHANGED <<handlers, sent, stack, panicked, ids, registered, sends,
                   sending, succ, sentBefore, invoked, deliveries,
                   deadLetters, last, resets, probe, regex, callers, chains>>

\* line 360
applicationNameUnlock(g) ==
    /\ ~panicked
    /\ threads[g].pc = "applicationName.Unlock"
    /\ IF appState.Mutex
       THEN /\ appState' = [appState EXCEPT !.Mutex = FALSE]
            /\ Goto(g, "applicationName.Return")
            /\ UNCHANGED panicked
       ELSE UnlockOfUnlocked(g)
    /\ UNCHANGED <<handlers, sent, stack, ids, registered, sends, sending,
                   succ, sentBefore, invoked, deliveries, deadLetters, last,
                   resets, probe, regex, callers, chains>>

\* line 362: the result is the field as it is now, read without the lock;
\* line 344 assigns it to configFile's local appName
applicationNameReturn(g) ==
    /\ ~panicked
    /\ threads[g].pc = "applicationName.Return"
    /\ SetThread(g, "configFile.Lock", threads[g].via, appState.appName)
    /\ UNCHANGED <<handlers, sent, stack, panicked, ids, registered, sends,
                   sending, succ, sentBefore, invoked, deliveries,
                   deadLetters, last, resets, probe, regex, callers, appState,
                   chains>>

\* line 345
configFileLock(g) ==
    /\ ~panicked
    /\ threads[g].pc = "configFile.Lock"
    /\ ~appState.Mutex
    /\ appState' = [appState EXCEPT !.Mutex = TRUE]
    /\ Goto(g, "configFile.Check")
    /\ UNCHANGED <<handlers, sent, stack, panicked, ids, registered, sends,
                   sending, succ, sentBefore, invoked, deliveries,
                   deadLetters, last, resets, probe, regex, callers, chains>>

\* line 346: the second check, under the lock
configFileCheck(g) ==
    /\ ~panicked
    /\ threads[g].pc = "configFile.Check"
    /\ IF IsEmpty(appState.configFileName)
       THEN Goto(g, "configFile.Set")
       ELSE Goto(g, "configFile.Unlock")
    /\ UNCHANGED <<handlers, sent, stack, panicked, ids, registered, sends,
                   sending, succ, sentBefore, invoked, deliveries,
                   deadLetters, last, resets, probe, regex, callers, appState,
                   chains>>

\* line 347: "." (46) and the name
configFileSet(g) ==
    /\ ~panicked
    /\ threads[g].pc = "configFile.Set"
    /\ appState' = [appState EXCEPT
                       !.configFileName = <<46>> \o threads[g].appName]
    /\ Goto(g, "configFile.Unlock")
    /\ UNCHANGED <<handlers, sent, stack, panicked, ids, registered, sends,
                   sending, succ, sentBefore, invoked, deliveries,
                   deadLetters, last, resets, probe, regex, callers, chains>>

\* lines 349-351
configFileUnlock(g) ==
    /\ ~panicked
    /\ threads[g].pc = "configFile.Unlock"
    /\ IF appState.Mutex
       THEN /\ appState' = [appState EXCEPT !.Mutex = FALSE]
            /\ Goto(g, "InitConfig.New")
            /\ UNCHANGED panicked
       ELSE UnlockOfUnlocked(g)
    /\ UNCHANGED <<handlers, sent, stack, ids, registered, sends, sending,
                   succ, sentBefore, invoked, deliveries, deadLetters, last,
                   resets, probe, regex, callers, chains>>

\* InitConfig, lines 308-310: the configuration is made from the file name
\* read at line 351; Load reads the file into viper and writes no field of
\* the State
InitConfigNew(g) ==
    /\ ~panicked
    /\ threads[g].pc = "InitConfig.New"
    /\ appState' = [appState EXCEPT !.config =
                       <<NewConfiguration(appState.configFileName,
                                          appState.useHomeDir, NilMap)>>]
    /\ IF threads[g].via = "Config"
       THEN Goto(g, "Config.Unlock")
       ELSE Done(g)
    /\ UNCHANGED <<handlers, sent, stack, panicked, ids, registered, sends,
                   sending, succ, sentBefore, invoked, deliveries,
                   deadLetters, last, resets, probe, regex, callers, chains>>

\* the results of the writes of the configuration file
WriteErrors == {NoError, "open .cfg: permission denied"}

\* DefaultConfig, lines 313-316, and Configuration.Default, config.go: with
\* no configuration the read of c.defaults in setUpDefaults panics.
\* Otherwise the defaults go to viper and createConfigFile writes the
\* file: err is the result of viper.WriteConfigAs, given to the util
\* CheckError; readConfig and Print follow, which write no field of the
\* State.
DefaultConfig(g, err) ==
    /\ ~panicked
    /\ threads[g].pc = "idle"
    /\ IF appState.config = NilConfiguration
       THEN /\ panicked' = TRUE
            /\ threads' = [threads EXCEPT ![g] =
                  [NoThread EXCEPT !.pc = "panic", !.via = "DefaultConfig"]]
       ELSE /\ UNCHANGED panicked
            /\ IF err = NoError
               THEN Done(g)
               ELSE threads' = [threads EXCEPT ![g] =
                       [NoThread EXCEPT
                           !.pc = "CheckError.log", !.via = "DefaultConfig",
                           !.err = err, !.msg = "Unable to write config"]]
    /\ UNCHANGED <<handlers, sent, stack, ids, registered, sends, sending,
                   succ, sentBefore, invoked, deliveries, deadLetters, last,
                   resets, probe, regex, callers, appState, chains>>

\* PrintConfig, lines 318-321, and Configuration.Print: with no
\* configuration the read of c.LoadedFrom panics; otherwise the settings
\* are printed
PrintConfig(g) ==
    /\ ~panicked
    /\ threads[g].pc = "idle"
    /\ IF appState.config = NilConfiguration
       THEN /\ panicked' = TRUE
            /\ threads' = [threads EXCEPT ![g] =
                  [NoThread EXCEPT !.pc = "panic", !.via = "PrintConfig"]]
       ELSE /\ UNCHANGED panicked
            /\ Done(g)
    /\ UNCHANGED <<handlers, sent, stack, ids, registered, sends, sending,
                   succ, sentBefore, invoked, deliveries, deadLetters, last,
                   resets, probe, regex, callers, appState, chains>>

\* UpdateConfigProperty, lines 302-305, Configuration.Update and
\* Configuration.Write: the property goes to viper and the file is
\* written, with or without a configuration (no field of it is read); err
\* is the result of viper.WriteConfig, given to the util CheckError with
\* the slice of Write's arguments as its one argument
UpdateConfigProperty(g, property, value, err) ==
    /\ ~panicked
    /\ threads[g].pc = "idle"
    /\ IF err = NoError
       THEN Done(g)
       ELSE threads' = [threads EXCEPT ![g] =
               [NoThread EXCEPT
                   !.pc = "CheckError.log", !.via = "UpdateConfigProperty",
                   !.err = err,
                   !.msg = "Error adding/updating config property [%s]",
                   !.args = << [type |-> "[]string",
                                value |-> "[" \o property \o "]"] >>]]
    /\ UNCHANGED <<handlers, sent, stack, panicked, ids, registered, sends,
                   sending, succ, sentBefore, invoked, deliveries,
                   deadLetters, last, resets, probe, regex, callers, appState,
                   chains>>

PropertyNames == {"k"}
PropertyValues == {"v"}

\* UpdateState, line 275: the call
UpdateState(g, name, value) ==
    /\ ~panicked
    /\ threads[g].pc = "idle"
    /\ threads' = [threads EXCEPT ![g] =
          [NoThread EXCEPT !.pc = "UpdateState.Lock", !.via = "UpdateState",
                           !.name = name, !.value = value]]
    /\ UNCHANGED <<handlers, sent, stack, panicked, ids, registered, sends,
                   sending, succ, sentBefore, invoked, deliveries,
                   deadLetters, last, resets, probe, regex, callers, appState,
                   chains>>

\* line 278
UpdateStateLock(g) ==
    /\ ~panicked
    /\ threads[g].pc = "UpdateState.Lock"
    /\ ~appState.Mutex
    /\ appState' = [appState EXCEPT !.Mutex = TRUE]
    /\ threads' = [threads EXCEPT ![g].pc = "UpdateState.Set"]
    /\ UNCHANGED <<handlers, sent, stack, panicked, ids, registered, sends,
                   sending, succ, sentBefore, invoked, deliveries,
                   deadLetters, last, resets, probe, regex, callers, chains>>

\* lines 279-281 and 290: the read of a nil map is legal, the assignment to
\* an entry of a nil map panics, with the mutex held; with a map that was
\* made (no State of this program has one) the entry is set and the mutex
\* released
UpdateStateSet(g) ==
    /\ ~panicked
    /\ threads[g].pc = "UpdateState.Set"
    /\ IF appState.properties.isNil
       THEN /\ panicked' = TRUE
            /\ threads' = [threads EXCEPT ![g].pc = "panic"]
            /\ UNCHANGED appState
       ELSE IF appState.Mutex
            THEN /\ UNCHANGED panicked
                 /\ appState' = [appState EXCEPT
                       !.properties.entries =
                           [k \in DOMAIN @ \cup {threads[g].name} |->
                               IF k = threads[g].name THEN threads[g].value
                               ELSE @[k]],
                       !.Mutex = FALSE]
                 /\ Done(g)
            ELSE UnlockOfUnlocked(g)
    /\ UNCHANGED <<handlers, sent, stack, ids, registered, sends, sending,
                   succ, sentBefore, invoked, deliveries, deadLetters, last,
                   resets, probe, regex, callers, chains>>

\* RemoveFromState, line 293: the call
RemoveFromState(g, name) ==
    /\ ~panicked
    /\ threads[g].pc = "idle"
    /\ threads' = [threads EXCEPT ![g] =
          [NoThread EXCEPT !.pc = "RemoveFromState.Lock",
                           !.via = "RemoveFromState", !.name = name]]
    /\ UNCHANGED <<handlers, sent, stack, panicked, ids, registered, sends,
                   sending, succ, sentBefore, invoked, deliveries,
                   deadLetters, last, resets, probe, regex, callers, appState,
                   chains>>

\* line 294
RemoveFromStateLock(g) ==
    /\ ~panicked
    /\ threads[g].pc = "RemoveFromState.Lock"
    /\ ~appState.Mutex
    /\ appState' = [appState EXCEPT !.Mutex = TRUE]
    /\ threads' = [threads EXCEPT ![g].pc = "RemoveFromState.Remove"]
    /\ UNCHANGED <<handlers, sent, stack, panicked, ids, registered, sends,
                   sending, succ, sentBefore, invoked, deliveries,
                   deadLetters, last, resets, probe, regex, callers, chains>>

\* lines 295-297: Properties.Remove (lines 644-646) hands the map to
\* RemoveFromMap, a function whose body is not in the source at hand. The
\* action is every outcome its signature allows: it returns, with a nil map
\* still nil (the callee has a copy of the nil reference) and a made map
\* holding any entries, or it panics.
RemoveFromStateRemove(g) ==
    /\ ~panicked
    /\ threads[g].pc = "RemoveFromState.Remove"
    /\ \/ /\ \E entries \in
                  IF appState.properties.isNil THEN {NilMap}
                  ELSE UNION {[keys -> PropertyValues] :
                                 keys \in SUBSET PropertyNames} :
                appState' = [appState EXCEPT !.properties.entries = entries]
          /\ threads' = [threads EXCEPT ![g].pc = "RemoveFromState.Unlock"]
          /\ UNCHANGED panicked
       \/ /\ panicked' = TRUE
          /\ threads' = [threads EXCEPT ![g].pc = "panic"]
          /\ UNCHANGED appState
    /\ UNCHANGED <<handlers, sent, stack, ids, registered, sends, sending,
                   succ, sentBefore, invoked, deliveries, deadLetters, last,
                   resets, probe, regex, callers, chains>>

\* lines 298-299
RemoveFromStateUnlock(g) ==
    /\ ~panicked
    /\ threads[g].pc = "RemoveFromState.Unlock"
    /\ IF appState.Mutex
       THEN /\ appState' = [appState EXCEPT !.Mutex = FALSE]
            /\ Done(g)
            /\ UNCHANGED panicked
       ELSE UnlockOfUnlocked(g)
    /\ UNCHANGED <<handlers, sent, stack, ids, registered, sends, sending,
                   succ, sentBefore, invoked, deliveries, deadLetters, last,
                   resets, probe, regex, callers, chains>>

\* The program of this specification: its goroutines call the State's
\* methods at any time; a write of the configuration file fails or not. It
\* registers no handler on the EventBus, so of the steps of a Send only
\* the one for a shortfall is ever taken and no Send returns. Calls are
\* made until MaxSends calls of Send were made.
NextConfig ==
    \/ \E newState \in {AppRunning, AppErrored} : SetState(newState)
    \/ \E name \in AppNames : SetAppName(name)
    \/ \E name \in ConfigFileNames : SetConfigFileName(name)
    \/ \E uhd \in {TRUE} : UseHomeDir(uhd)
    \/ \E g \in Threads :
          \/ Config(g)
          \/ ConfigLock(g)
          \/ ConfigCheck(g)
          \/ ConfigUnlock(g)
          \/ InitConfig(g)
          \/ configFile(g)
          \/ applicationName(g)
          \/ applicationNameLock(g)
          \/ applicationNameCheck(g)
          \/ applicationNameSet(g)
          \/ applicationNameUnlock(g)
          \/ applicationNameReturn(g)
          \/ configFileLock(g)
          \/ configFileCheck(g)
          \/ configFileSet(g)
          \/ configFileUnlock(g)
          \/ InitConfigNew(g)
          \/ \E name \in PropertyNames, value \in PropertyValues :
                UpdateState(g, name, value)
          \/ UpdateStateLock(g)
          \/ UpdateStateSet(g)
          \/ \E name \in PropertyNames : RemoveFromState(g, name)
          \/ RemoveFromStateLock(g)
          \/ RemoveFromStateRemove(g)
          \/ RemoveFromStateUnlock(g)
          \/ Lock(g)
          \/ Unlock(g)
          \/ \E err \in WriteErrors :
                sends < MaxSends /\ DefaultConfig(g, err)
          \/ PrintConfig(g)
          \/ \E property \in PropertyNames, value \in PropertyValues,
                err \in WriteErrors :
                /\ sends < MaxSends
                /\ UpdateConfigProperty(g, property, value, err)
          \/ \E terminate \in BOOLEAN, err \in Errors, msg \in Messages :
                /\ sends < MaxSends
                /\ CheckError(g, terminate, err, msg)
          \/ LogError(g)
          \/ CheckErrorLog(g)
          \/ /\ threads[g].pc = "SendErrorEvent"
             /\ SendErrorEvent(g, threads[g].source, threads[g].err,
                               threads[g].msg, threads[g].args)
          \/ Switch(g)
    \/ SendShortfall

SpecConfig == Init /\ [][NextConfig]_vars

\* the goroutine is inside Config between its Lock and its Unlock
InConfigLocked(g) ==
    threads[g].via = "Config" /\ threads[g].pc \notin {"idle", "Config.Lock"}

\* the goroutine is about to Lock the State's mutex
AtLock(g) ==
    threads[g].pc \in {"Config.Lock", "applicationName.Lock", "configFile.Lock"}

\* C29: Config() always returns: the lazy initialisation it runs while it
\* holds the State's mutex never tries to lock that mutex again, so no
\* goroutine waits for a lock that it holds itself.
C29_ConfigNoSelfDeadlock ==
    \A g \in Threads : ~(InConfigLocked(g) /\ AtLock(g))

====
